---- MODULE Spec2Model ----
(***************************************************************************)
(* A model of the MERCAT asset issuance library (mercat/asset.rs) and of   *)
(* the MERCAT validator command line tool (cli/mercat/validator/main.rs).  *)
(*                                                                         *)
(* Group elements are written by their exponents: a public key sk.G is the *)
(* integer sk, and a point a.G + b.H is the pair [g |-> a, h |-> b].  The  *)
(* integers stand for the scalar field: every number of the model is far   *)
(* below the group order, so no reduction ever happens.  Signatures and    *)
(* sigma proofs are ideal: a signature names its signer and the bytes it   *)
(* signed, a proof names the statement its prover proved.                  *)
(***************************************************************************)
EXTENDS Integers, Sequences, FiniteSets, TLC

VARIABLES
    \* ---- asset issuance (mercat/asset.rs) ----
    sec_account,     \* the issuer's SecAccount
    chain_account,   \* the issuer's PubAccount as the validator holds it
    issued,          \* what initialize_asset_transaction was called with and returned
    asset_tx,        \* the InitializedAssetTx on its way to the mediator
    justified_tx,    \* the JustifiedAssetTx on its way to the validator
    jcall,           \* the last call of justify_asset_transaction
    vcall,           \* the last call of verify_asset_transaction
    deposits,        \* number of successful verify_asset_transaction calls
    \* ---- validator command line tool ----
    store,           \* the on-chain directory: file key -> object
    run,             \* the last run of the validator tool
    \* ---- sigma proof drivers (asset_proofs/encryption_proofs.rs) ----
    proved,          \* the last run of a prover driver
    presented,       \* verifiers, initial messages and final responses given to a verifier
    verdict,         \* the last run of a verifier driver
    again,           \* the last repetition of a prover or verifier run
    tried,           \* the last call of ZKPChallenge::try_from
    \* ---- range proofs (asset_proofs/range_proof.rs) ----
    range_proof,     \* the last call of prove_within_range
    range_verdict,   \* the last call of verify_within_range
    range_cipher,    \* the last encryption of the witness of the range proof
    \* ---- claim prover command line tool (confidential-identity/cli/scp) ----
    cdd_run,         \* the last run of create-cdd-id
    claim_run,       \* the last run of create-claim-proof
    claim_verdict,   \* the last verification of a published claim proof
    uid_run          \* the last run of create-mocked-investor-uid

ivars == <<sec_account, chain_account, issued, asset_tx, justified_tx,
           jcall, vcall, deposits>>
vvars == <<store, run>>
pvars == <<proved, presented, verdict, again, tried>>
rvars == <<range_proof, range_verdict, range_cipher>>
svars == <<cdd_run, claim_run, claim_verdict, uid_run>>
vars == <<sec_account, chain_account, issued, asset_tx, justified_tx,
          jcall, vcall, deposits, store, run,
          proved, presented, verdict, again, tried,
          range_proof, range_verdict, range_cipher,
          cdd_run, claim_run, claim_verdict, uid_run>>

\* ------------------------------------------------------------------ bounds
MaxBlind == 1
MaxAmount == 2
MaxDeposits == 2

Blindings == 1..MaxBlind
Amounts == 1..MaxAmount
AccountIds == {1, 1234}
MediatorIds == {1, 2}

None == [none |-> TRUE]

\* ------------------------------------------------------------------ ElGamal
ZeroCipher == [x |-> 0, y |-> [g |-> 0, h |-> 0]]

\* X = blinding.P, Y = blinding.G + value.H
Encrypt(pub_key, w) ==
    [x |-> w.blinding * pub_key, y |-> [g |-> w.blinding, h |-> w.value]]

CipherAdd(c1, c2) ==
    [x |-> c1.x + c2.x, y |-> [g |-> c1.y.g + c2.y.g, h |-> c1.y.h + c2.y.h]]

CipherSub(c1, c2) ==
    [x |-> c1.x - c2.x, y |-> [g |-> c1.y.g - c2.y.g, h |-> c1.y.h - c2.y.h]]

\* Y - X/sk is a multiple of H exactly when X = sk.(the G part of Y); the search
\* for the value covers 0 .. 2^32 - 1, above every number of this model
Decrypt(scrt, cipher) ==
    IF cipher.x = scrt * cipher.y.g /\ cipher.y.h >= 0
    THEN [ok |-> TRUE, val |-> cipher.y.h, err |-> "none"]
    ELSE [ok |-> FALSE, val |-> 0, err |-> "NotPublicKey"]

ElgamalVerify(scrt, cipher, value) ==
    cipher.x = scrt * cipher.y.g /\ cipher.y.h = value

\* ------------------------------------------------------------------ keys
EncKeys(sk) == [pblc |-> sk, scrt |-> sk]
SignKeys(k) == [public |-> k, secret |-> k]

IssuerEncKeys == EncKeys(2)
IssuerSignKeys == SignKeys(1)
MediatorEncKeys(m) == EncKeys(2 * m + 1)
MediatorSignKeys(m) == SignKeys(m + 1)
StrangerSignKeys == SignKeys(9)

\* ------------------------------------------------------------------ signatures
Sign(keys, message) == [signer |-> keys.public, msg |-> message]

\* Signature::from_bytes(&[128u8; 64]): a well-formed signature nobody made
InvalidSignature == [signer |-> 0, msg |-> <<>>]

SigVerify(public, message, sig) ==
    IF sig.signer # public THEN FALSE
    ELSE IF Len(sig.msg) # Len(message) THEN FALSE
    ELSE sig.msg = message

\* ------------------------------------------------------------------ sigma proofs
EncryptingSameValueProve(pub_key1, pub_key2, w) ==
    [kind |-> "EncryptingSameValue", pub_key1 |-> pub_key1, pub_key2 |-> pub_key2,
     cipher1 |-> Encrypt(pub_key1, w), cipher2 |-> Encrypt(pub_key2, w)]

EncryptingSameValueVerify(verifier, proof) ==
    /\ proof.pub_key1 = verifier.pub_key1
    /\ proof.pub_key2 = verifier.pub_key2
    /\ proof.cipher1 = verifier.cipher1
    /\ proof.cipher2 = verifier.cipher2

WellformednessProve(pub_key, w) ==
    [kind |-> "Wellformedness", pub_key |-> pub_key, cipher |-> Encrypt(pub_key, w)]

WellformednessVerify(verifier, proof) ==
    /\ proof.pub_key = verifier.pub_key
    /\ proof.cipher = verifier.cipher

CorrectnessProve(pub_key, w) ==
    [kind |-> "Correctness", pub_key |-> pub_key, cipher |-> Encrypt(pub_key, w),
     value |-> w.value]

CorrectnessVerify(verifier, proof) ==
    /\ proof.pub_key = verifier.pub_key
    /\ proof.cipher = verifier.cipher
    /\ proof.value = verifier.value

DefaultSameValueProof ==
    [kind |-> "EncryptingSameValue", pub_key1 |-> 0, pub_key2 |-> 0,
     cipher1 |-> ZeroCipher, cipher2 |-> ZeroCipher]
DefaultWellformednessProof ==
    [kind |-> "Wellformedness", pub_key |-> 0, cipher |-> ZeroCipher]
DefaultCorrectnessProof ==
    [kind |-> "Correctness", pub_key |-> 0, cipher |-> ZeroCipher, value |-> 0]

\* ------------------------------------------------------------------ encoding
\* SCALE encoding of a struct: its fields, in declaration order
EncodeContent(content) ==
    <<content.account_id, content.enc_asset_id, content.enc_amount, content.memo,
      content.asset_id_equal_cipher_proof, content.balance_wellformedness_proof,
      content.balance_correctness_proof>>

EncodeInitializedAssetTx(tx) == EncodeContent(tx.content) \o <<tx.sig>>

\* ------------------------------------------------------------------ results
CheckPassed(checks) == [ok |-> TRUE, err |-> "none", checks |-> checks]
CheckFailed(err, checks) == [ok |-> FALSE, err |-> err, checks |-> checks]

\* ------------------------------------------------------------------ accounts
AccountMemo(enc_pub_key, sign_pub_key) ==
    [owner_enc_pub_key |-> enc_pub_key, owner_sign_pub_key |-> sign_pub_key]

PubAccount(id, enc_asset_id, memo) ==
    [content |-> [id |-> id,
                  enc_asset_id |-> enc_asset_id,
                  enc_balance |-> ZeroCipher,
                  asset_wellformedness_proof |-> DefaultWellformednessProof,
                  asset_membership_proof |-> "default",
                  initial_balance_correctness_proof |-> DefaultCorrectnessProof,
                  memo |-> memo],
     initial_sig |-> InvalidSignature]

\* account::deposit: the balance becomes the homomorphic sum of balance and memo
deposit(account, enc_amount) ==
    [account EXCEPT !.content.enc_balance = CipherAdd(@, enc_amount)]

\* the public account belongs to the secret account
Derived(pub, sec) ==
    /\ pub.content.memo.owner_enc_pub_key = sec.enc_keys.pblc
    /\ pub.content.memo.owner_sign_pub_key = sec.sign_keys.public
    /\ pub.content.enc_asset_id = Encrypt(sec.enc_keys.pblc, sec.asset_id_witness)

\* ------------------------------------------------------------------ asset.rs
\* mutant: the verifier of the asset id proof is given the two keys in the wrong order
asset_issuance_init_verify_swapped_keys(tx, issr_pub_account, mdtr_enc_pub_key) ==
    LET sig_ok == SigVerify(issr_pub_account.content.memo.owner_sign_pub_key,
                            EncodeContent(tx.content), tx.sig)
        same_ok == EncryptingSameValueVerify(
                       [pub_key1 |-> mdtr_enc_pub_key,
                        pub_key2 |-> issr_pub_account.content.memo.owner_enc_pub_key,
                        cipher1 |-> issr_pub_account.content.enc_asset_id,
                        cipher2 |-> tx.content.enc_asset_id],
                       tx.content.asset_id_equal_cipher_proof)
        wf_ok == WellformednessVerify(
                       [pub_key |-> issr_pub_account.content.memo.owner_enc_pub_key,
                        cipher |-> tx.content.memo],
                       tx.content.balance_wellformedness_proof)
    IN  IF ~sig_ok
        THEN CheckFailed("SignatureValidationFailure", <<"issuer_sig">>)
        ELSE IF ~same_ok
        THEN CheckFailed("EncryptingSameValueFinalResponseVerificationError",
                         <<"issuer_sig", "asset_id_equal_cipher_proof">>)
        ELSE IF ~wf_ok
        THEN CheckFailed("WellformednessFinalResponseVerificationError",
                         <<"issuer_sig", "asset_id_equal_cipher_proof",
                           "balance_wellformedness_proof">>)
        ELSE CheckPassed(<<"issuer_sig", "asset_id_equal_cipher_proof",
                           "balance_wellformedness_proof">>)

\* mutant: the memo's well-formedness proof is reported as checked but its
\* result is dropped
asset_issuance_init_verify_wellformedness_ignored(tx, issr_pub_account, mdtr_enc_pub_key) ==
    LET sig_ok == SigVerify(issr_pub_account.content.memo.owner_sign_pub_key,
                            EncodeContent(tx.content), tx.sig)
        same_ok == EncryptingSameValueVerify(
                       [pub_key1 |-> issr_pub_account.content.memo.owner_enc_pub_key,
                        pub_key2 |-> mdtr_enc_pub_key,
                        cipher1 |-> issr_pub_account.content.enc_asset_id,
                        cipher2 |-> tx.content.enc_asset_id],
                       tx.content.asset_id_equal_cipher_proof)
    IN  IF ~sig_ok
        THEN CheckFailed("SignatureValidationFailure", <<"issuer_sig">>)
        ELSE IF ~same_ok
        THEN CheckFailed("EncryptingSameValueFinalResponseVerificationError",
                         <<"issuer_sig", "asset_id_equal_cipher_proof">>)
        ELSE CheckPassed(<<"issuer_sig", "asset_id_equal_cipher_proof",
                           "balance_wellformedness_proof">>)

\* mutant: the result of the signature check is dropped (no `?`)
asset_issuance_init_verify_signature_ignored(tx, issr_pub_account, mdtr_enc_pub_key) ==
    LET same_ok == EncryptingSameValueVerify(
                       [pub_key1 |-> issr_pub_account.content.memo.owner_enc_pub_key,
                        pub_key2 |-> mdtr_enc_pub_key,
                        cipher1 |-> issr_pub_account.content.enc_asset_id,
                        cipher2 |-> tx.content.enc_asset_id],
                       tx.content.asset_id_equal_cipher_proof)
        wf_ok == WellformednessVerify(
                       [pub_key |-> issr_pub_account.content.memo.owner_enc_pub_key,
                        cipher |-> tx.content.memo],
                       tx.content.balance_wellformedness_proof)
    IN  IF ~same_ok
        THEN CheckFailed("EncryptingSameValueFinalResponseVerificationError",
                         <<"issuer_sig", "asset_id_equal_cipher_proof">>)
        ELSE IF ~wf_ok
        THEN CheckFailed("WellformednessFinalResponseVerificationError",
                         <<"issuer_sig", "asset_id_equal_cipher_proof",
                           "balance_wellformedness_proof">>)
        ELSE CheckPassed(<<"issuer_sig", "asset_id_equal_cipher_proof",
                           "balance_wellformedness_proof">>)

\* mutant: a transaction that names another account id than the account has
\* is refused
asset_issuance_init_verify_account_id_checked(tx, issr_pub_account, mdtr_enc_pub_key) ==
    LET message == EncodeContent(tx.content)
        sig_ok == SigVerify(issr_pub_account.content.memo.owner_sign_pub_key,
                            message, tx.sig)
        same_ok == EncryptingSameValueVerify(
                       [pub_key1 |-> issr_pub_account.content.memo.owner_enc_pub_key,
                        pub_key2 |-> mdtr_enc_pub_key,
                        cipher1 |-> issr_pub_account.content.enc_asset_id,
                        cipher2 |-> tx.content.enc_asset_id],
                       tx.content.asset_id_equal_cipher_proof)
        wf_ok == WellformednessVerify(
                       [pub_key |-> issr_pub_account.content.memo.owner_enc_pub_key,
                        cipher |-> tx.content.memo],
                       tx.content.balance_wellformedness_proof)
    IN  IF tx.content.account_id # issr_pub_account.content.id
        THEN CheckFailed("InvalidAccount", <<>>)
        ELSE IF ~sig_ok
        THEN CheckFailed("SignatureValidationFailure", <<"issuer_sig">>)
        ELSE IF ~same_ok
        THEN CheckFailed("EncryptingSameValueFinalResponseVerificationError",
                         <<"issuer_sig", "asset_id_equal_cipher_proof">>)
        ELSE IF ~wf_ok
        THEN CheckFailed("WellformednessFinalResponseVerificationError",
                         <<"issuer_sig", "asset_id_equal_cipher_proof",
                           "balance_wellformedness_proof">>)
        ELSE CheckPassed(<<"issuer_sig", "asset_id_equal_cipher_proof",
                           "balance_wellformedness_proof">>)

asset_issuance_init_verify(tx, issr_pub_account, mdtr_enc_pub_key) ==
    LET message == EncodeContent(tx.content)
        sig_ok == SigVerify(issr_pub_account.content.memo.owner_sign_pub_key,
                            message, tx.sig)
        same_ok == EncryptingSameValueVerify(
                       [pub_key1 |-> issr_pub_account.content.memo.owner_enc_pub_key,
                        pub_key2 |-> mdtr_enc_pub_key,
                        cipher1 |-> issr_pub_account.content.enc_asset_id,
                        cipher2 |-> tx.content.enc_asset_id],
                       tx.content.asset_id_equal_cipher_proof)
        wf_ok == WellformednessVerify(
                       [pub_key |-> issr_pub_account.content.memo.owner_enc_pub_key,
                        cipher |-> tx.content.memo],
                       tx.content.balance_wellformedness_proof)
    IN  IF ~sig_ok
        THEN CheckFailed("SignatureValidationFailure", <<"issuer_sig">>)
        ELSE IF ~same_ok
        THEN CheckFailed("EncryptingSameValueFinalResponseVerificationError",
                         <<"issuer_sig", "asset_id_equal_cipher_proof">>)
        ELSE IF ~wf_ok
        THEN CheckFailed("WellformednessFinalResponseVerificationError",
                         <<"issuer_sig", "asset_id_equal_cipher_proof",
                           "balance_wellformedness_proof">>)
        ELSE CheckPassed(<<"issuer_sig", "asset_id_equal_cipher_proof",
                           "balance_wellformedness_proof">>)

\* rng draws: r_amount for the mediator's copy, r_memo for the memo
\* mutant: the asset id is encrypted to the mediator with a new blinding, not
\* with the witness of the secret account
initialize_asset_transaction_new_asset_id_blinding(issr_account_id, issr_account, mdtr_pub_key, amount, r_amount, r_memo) ==
    LET mdtr_enc_asset_id ==
            Encrypt(mdtr_pub_key, [value |-> issr_account.asset_id_witness.value,
                                   blinding |-> r_amount + 1])
        mdtr_enc_amount == Encrypt(mdtr_pub_key, [value |-> amount, blinding |-> r_amount])
        issr_amount_witness == [value |-> amount, blinding |-> r_memo]
        memo == Encrypt(issr_account.enc_keys.pblc, issr_amount_witness)
        content ==
            [account_id |-> issr_account_id,
             enc_asset_id |-> mdtr_enc_asset_id,
             enc_amount |-> mdtr_enc_amount,
             memo |-> memo,
             asset_id_equal_cipher_proof |->
                 EncryptingSameValueProve(issr_account.enc_keys.pblc, mdtr_pub_key,
                                          issr_account.asset_id_witness),
             balance_wellformedness_proof |->
                 WellformednessProve(issr_account.enc_keys.pblc, issr_amount_witness),
             balance_correctness_proof |->
                 CorrectnessProve(issr_account.enc_keys.pblc, issr_amount_witness)]
    IN  [content |-> content,
         sig |-> Sign(issr_account.sign_keys, EncodeContent(content))]

initialize_asset_transaction(issr_account_id, issr_account, mdtr_pub_key, amount, r_amount, r_memo) ==
    LET mdtr_enc_asset_id == Encrypt(mdtr_pub_key, issr_account.asset_id_witness)
        mdtr_enc_amount == Encrypt(mdtr_pub_key, [value |-> amount, blinding |-> r_amount])
        issr_amount_witness == [value |-> amount, blinding |-> r_memo]
        memo == Encrypt(issr_account.enc_keys.pblc, issr_amount_witness)
        content ==
            [account_id |-> issr_account_id,
             enc_asset_id |-> mdtr_enc_asset_id,
             enc_amount |-> mdtr_enc_amount,
             memo |-> memo,
             asset_id_equal_cipher_proof |->
                 EncryptingSameValueProve(issr_account.enc_keys.pblc, mdtr_pub_key,
                                          issr_account.asset_id_witness),
             balance_wellformedness_proof |->
                 WellformednessProve(issr_account.enc_keys.pblc, issr_amount_witness),
             balance_correctness_proof |->
                 CorrectnessProve(issr_account.enc_keys.pblc, issr_amount_witness)]
    IN  [content |-> content,
         sig |-> Sign(issr_account.sign_keys, EncodeContent(content))]

verify_initialization(tx, issr_pub_account, mdtr_enc_pub_key) ==
    asset_issuance_init_verify(tx, issr_pub_account, mdtr_enc_pub_key)

\* mutant: the validator deposits the mediator's copy of the amount, not the memo
verify_asset_transaction_deposits_enc_amount(jtx, issr_account, mdtr_enc_pub_key, mdtr_sign_pub_key) ==
    LET message == EncodeInitializedAssetTx(jtx.content)
        sig_ok == SigVerify(mdtr_sign_pub_key, message, jtx.sig)
        initialized_asset_tx == jtx.content
        init == verify_initialization(initialized_asset_tx, issr_account, mdtr_enc_pub_key)
    IN  IF ~sig_ok
        THEN [ok |-> FALSE, err |-> "SignatureValidationFailure",
              checks |-> <<"mediator_sig">>, out |-> None]
        ELSE IF ~init.ok
        THEN [ok |-> FALSE, err |-> init.err,
              checks |-> <<"mediator_sig">> \o init.checks, out |-> None]
        ELSE [ok |-> TRUE, err |-> "none",
              checks |-> <<"mediator_sig">> \o init.checks \o <<"deposit">>,
              out |-> deposit(issr_account, initialized_asset_tx.content.enc_amount)]

\* mutant: the result of the mediator's signature check is dropped (no `?`)
verify_asset_transaction_mediator_sig_ignored(jtx, issr_account, mdtr_enc_pub_key, mdtr_sign_pub_key) ==
    LET initialized_asset_tx == jtx.content
        init == verify_initialization(initialized_asset_tx, issr_account, mdtr_enc_pub_key)
    IN  IF ~init.ok
        THEN [ok |-> FALSE, err |-> init.err,
              checks |-> <<"mediator_sig">> \o init.checks, out |-> None]
        ELSE [ok |-> TRUE, err |-> "none",
              checks |-> <<"mediator_sig">> \o init.checks \o <<"deposit">>,
              out |-> deposit(issr_account, initialized_asset_tx.content.memo)]

\* mutant: the returned account also takes the account id of the transaction
verify_asset_transaction_account_id_updated(jtx, issr_account, mdtr_enc_pub_key, mdtr_sign_pub_key) ==
    LET message == EncodeInitializedAssetTx(jtx.content)
        sig_ok == SigVerify(mdtr_sign_pub_key, message, jtx.sig)
        initialized_asset_tx == jtx.content
        init == verify_initialization(initialized_asset_tx, issr_account, mdtr_enc_pub_key)
        updated == deposit(issr_account, initialized_asset_tx.content.memo)
    IN  IF ~sig_ok
        THEN [ok |-> FALSE, err |-> "SignatureValidationFailure",
              checks |-> <<"mediator_sig">>, out |-> None]
        ELSE IF ~init.ok
        THEN [ok |-> FALSE, err |-> init.err,
              checks |-> <<"mediator_sig">> \o init.checks, out |-> None]
        ELSE [ok |-> TRUE, err |-> "none",
              checks |-> <<"mediator_sig">> \o init.checks \o <<"deposit">>,
              out |-> [updated EXCEPT
                          !.content.id = initialized_asset_tx.content.account_id]]

\* mutant: the validator processes an issuance for an account with an empty
\* balance only
verify_asset_transaction_empty_balance_only(jtx, issr_account, mdtr_enc_pub_key, mdtr_sign_pub_key) ==
    LET message == EncodeInitializedAssetTx(jtx.content)
        sig_ok == SigVerify(mdtr_sign_pub_key, message, jtx.sig)
        initialized_asset_tx == jtx.content
        init == verify_initialization(initialized_asset_tx, issr_account, mdtr_enc_pub_key)
    IN  IF ~sig_ok
        THEN [ok |-> FALSE, err |-> "SignatureValidationFailure",
              checks |-> <<"mediator_sig">>, out |-> None]
        ELSE IF ~init.ok
        THEN [ok |-> FALSE, err |-> init.err,
              checks |-> <<"mediator_sig">> \o init.checks, out |-> None]
        ELSE IF issr_account.content.enc_balance # ZeroCipher
        THEN [ok |-> FALSE, err |-> "InvalidAccount",
              checks |-> <<"mediator_sig">> \o init.checks, out |-> None]
        ELSE [ok |-> TRUE, err |-> "none",
              checks |-> <<"mediator_sig">> \o init.checks \o <<"deposit">>,
              out |-> deposit(issr_account, initialized_asset_tx.content.memo)]

\* returns the result, the checks made in order, and the account returned
verify_asset_transaction(jtx, issr_account, mdtr_enc_pub_key, mdtr_sign_pub_key) ==
    LET message == EncodeInitializedAssetTx(jtx.content)
        sig_ok == SigVerify(mdtr_sign_pub_key, message, jtx.sig)
        initialized_asset_tx == jtx.content
        init == verify_initialization(initialized_asset_tx, issr_account, mdtr_enc_pub_key)
    IN  IF ~sig_ok
        THEN [ok |-> FALSE, err |-> "SignatureValidationFailure",
              checks |-> <<"mediator_sig">>, out |-> None]
        ELSE IF ~init.ok
        THEN [ok |-> FALSE, err |-> init.err,
              checks |-> <<"mediator_sig">> \o init.checks, out |-> None]
        ELSE [ok |-> TRUE, err |-> "none",
              checks |-> <<"mediator_sig">> \o init.checks \o <<"deposit">>,
              out |-> deposit(issr_account, initialized_asset_tx.content.memo)]

\* mutant: the correctness proof is verified but its result is dropped (no `?`)
justify_asset_transaction_correctness_ignored(tx, issr_pub_account, mdtr_enc_keys, mdtr_sign_keys) ==
    LET init == asset_issuance_init_verify(tx, issr_pub_account, mdtr_enc_keys.pblc)
        amount == Decrypt(mdtr_enc_keys.scrt, tx.content.enc_amount)
    IN  IF ~init.ok
        THEN [ok |-> FALSE, err |-> init.err, checks |-> init.checks, out |-> None]
        ELSE IF ~amount.ok
        THEN [ok |-> FALSE, err |-> amount.err,
              checks |-> init.checks \o <<"decrypt_enc_amount">>, out |-> None]
        ELSE [ok |-> TRUE, err |-> "none",
              checks |-> init.checks \o <<"decrypt_enc_amount", "balance_correctness_proof",
                                          "mediator_sign">>,
              out |-> [content |-> tx,
                       sig |-> Sign(mdtr_sign_keys, EncodeInitializedAssetTx(tx))]]

\* mutant: the correctness proof is verified against the value it names
\* itself, not against the decrypted amount
justify_asset_transaction_claimed_value(tx, issr_pub_account, mdtr_enc_keys, mdtr_sign_keys) ==
    LET init == asset_issuance_init_verify(tx, issr_pub_account, mdtr_enc_keys.pblc)
        corr_ok == CorrectnessVerify(
                       [value |-> tx.content.balance_correctness_proof.value,
                        pub_key |-> issr_pub_account.content.memo.owner_enc_pub_key,
                        cipher |-> tx.content.memo],
                       tx.content.balance_correctness_proof)
    IN  IF ~init.ok
        THEN [ok |-> FALSE, err |-> init.err, checks |-> init.checks, out |-> None]
        ELSE IF ~corr_ok
        THEN [ok |-> FALSE, err |-> "CorrectnessFinalResponseVerificationError",
              checks |-> init.checks \o <<"decrypt_enc_amount", "balance_correctness_proof">>,
              out |-> None]
        ELSE [ok |-> TRUE, err |-> "none",
              checks |-> init.checks \o <<"decrypt_enc_amount", "balance_correctness_proof",
                                          "mediator_sign">>,
              out |-> [content |-> tx,
                       sig |-> Sign(mdtr_sign_keys, EncodeInitializedAssetTx(tx))]]

\* mutant: the mediator signs the content alone, without the issuer's signature
justify_asset_transaction_signs_content(tx, issr_pub_account, mdtr_enc_keys, mdtr_sign_keys) ==
    LET init == asset_issuance_init_verify(tx, issr_pub_account, mdtr_enc_keys.pblc)
        amount == Decrypt(mdtr_enc_keys.scrt, tx.content.enc_amount)
        corr_ok == CorrectnessVerify(
                       [value |-> amount.val,
                        pub_key |-> issr_pub_account.content.memo.owner_enc_pub_key,
                        cipher |-> tx.content.memo],
                       tx.content.balance_correctness_proof)
    IN  IF ~init.ok
        THEN [ok |-> FALSE, err |-> init.err, checks |-> init.checks, out |-> None]
        ELSE IF ~amount.ok
        THEN [ok |-> FALSE, err |-> amount.err,
              checks |-> init.checks \o <<"decrypt_enc_amount">>, out |-> None]
        ELSE IF ~corr_ok
        THEN [ok |-> FALSE, err |-> "CorrectnessFinalResponseVerificationError",
              checks |-> init.checks \o <<"decrypt_enc_amount", "balance_correctness_proof">>,
              out |-> None]
        ELSE [ok |-> TRUE, err |-> "none",
              checks |-> init.checks \o <<"decrypt_enc_amount", "balance_correctness_proof",
                                          "mediator_sign">>,
              out |-> [content |-> tx,
                       sig |-> Sign(mdtr_sign_keys, EncodeContent(tx.content))]]

justify_asset_transaction(tx, issr_pub_account, mdtr_enc_keys, mdtr_sign_keys) ==
    LET init == asset_issuance_init_verify(tx, issr_pub_account, mdtr_enc_keys.pblc)
        amount == Decrypt(mdtr_enc_keys.scrt, tx.content.enc_amount)
        corr_ok == CorrectnessVerify(
                       [value |-> amount.val,
                        pub_key |-> issr_pub_account.content.memo.owner_enc_pub_key,
                        cipher |-> tx.content.memo],
                       tx.content.balance_correctness_proof)
    IN  IF ~init.ok
        THEN [ok |-> FALSE, err |-> init.err, checks |-> init.checks, out |-> None]
        ELSE IF ~amount.ok
        THEN [ok |-> FALSE, err |-> amount.err,
              checks |-> init.checks \o <<"decrypt_enc_amount">>, out |-> None]
        ELSE IF ~corr_ok
        THEN [ok |-> FALSE, err |-> "CorrectnessFinalResponseVerificationError",
              checks |-> init.checks \o <<"decrypt_enc_amount", "balance_correctness_proof">>,
              out |-> None]
        ELSE [ok |-> TRUE, err |-> "none",
              checks |-> init.checks \o <<"decrypt_enc_amount", "balance_correctness_proof",
                                          "mediator_sign">>,
              out |-> [content |-> tx,
                       sig |-> Sign(mdtr_sign_keys, EncodeInitializedAssetTx(tx))]]

\* ------------------------------------------------------------------ what a dishonest party changes
Deviations == {"enc_amount_value", "enc_amount_key", "memo", "enc_asset_id",
               "asset_id_equal_cipher_proof", "balance_wellformedness_proof",
               "balance_correctness_proof"}

Deviate(content, d) ==
    CASE d = "enc_amount_value" ->
             [content EXCEPT !.enc_amount = [@ EXCEPT !.y.h = @ + 1]]
      [] d = "enc_amount_key" ->
             [content EXCEPT !.enc_amount = [@ EXCEPT !.x = @ + content.enc_amount.y.g]]
      [] d = "memo" ->
             [content EXCEPT !.memo = [@ EXCEPT !.y.h = @ + 1]]
      [] d = "enc_asset_id" ->
             [content EXCEPT !.enc_asset_id = [@ EXCEPT !.y.h = @ + 1]]
      [] d = "asset_id_equal_cipher_proof" ->
             [content EXCEPT !.asset_id_equal_cipher_proof = DefaultSameValueProof]
      [] d = "balance_wellformedness_proof" ->
             [content EXCEPT !.balance_wellformedness_proof = DefaultWellformednessProof]
      [] d = "balance_correctness_proof" ->
             [content EXCEPT !.balance_correctness_proof = DefaultCorrectnessProof]

\* ------------------------------------------------------------------ issuance: the state machine
IdleStore == None
IdleRun == None

InitIssuance ==
    /\ \E b \in Blindings :
           sec_account = [enc_keys |-> IssuerEncKeys, sign_keys |-> IssuerSignKeys,
                          asset_id_witness |-> [value |-> 1, blinding |-> b]]
    /\ \E kind \in {"derived", "other_asset", "other_signer"} :
           chain_account =
               PubAccount(1,
                   Encrypt(sec_account.enc_keys.pblc,
                           IF kind = "other_asset"
                           THEN [value |-> 2, blinding |-> sec_account.asset_id_witness.blinding]
                           ELSE sec_account.asset_id_witness),
                   AccountMemo(sec_account.enc_keys.pblc,
                               IF kind = "other_signer" THEN StrangerSignKeys.public
                               ELSE sec_account.sign_keys.public))
    /\ issued = None
    /\ asset_tx = None
    /\ justified_tx = None
    /\ jcall = None
    /\ vcall = None
    /\ deposits = 0
    /\ store = IdleStore
    /\ run = IdleRun
    /\ proved = None
    /\ presented = None
    /\ verdict = None
    /\ again = None
    /\ tried = None
    /\ range_proof = None
    /\ range_verdict = None
    /\ range_cipher = None
    /\ cdd_run = None
    /\ claim_run = None
    /\ claim_verdict = None
    /\ uid_run = None

\* The issuer calls initialize_asset_transaction and sends the result.
Initialize ==
    /\ issued = None
    /\ \E id \in AccountIds, m \in MediatorIds, amount \in Amounts,
       r_amount \in Blindings, r_memo \in Blindings :
        LET tx == initialize_asset_transaction(id, sec_account, MediatorEncKeys(m).pblc,
                                               amount, r_amount, r_memo)
        IN  /\ issued' = [tx |-> tx, account_id |-> id, mdtr |-> m, amount |-> amount]
            /\ asset_tx' = tx
    /\ UNCHANGED <<pvars, rvars, svars>>
    /\ UNCHANGED <<sec_account, chain_account, justified_tx, jcall, vcall, deposits,
                   store, run>>

\* A dishonest issuer changes one field of the content and signs the result.
Craft ==
    /\ issued # None /\ asset_tx = issued.tx /\ jcall = None
    /\ \E d \in Deviations :
           LET content == Deviate(asset_tx.content, d)
           IN  asset_tx' = [content |-> content,
                            sig |-> Sign(sec_account.sign_keys, EncodeContent(content))]
    /\ UNCHANGED <<pvars, rvars, svars>>
    /\ UNCHANGED <<sec_account, chain_account, issued, justified_tx,
                   jcall, vcall, deposits, store, run>>

\* Somebody without the issuer's key changes the transaction on its way.
TamperInitialized ==
    /\ issued # None /\ asset_tx = issued.tx /\ jcall = None
    /\ \/ asset_tx' = [asset_tx EXCEPT !.sig = InvalidSignature]
       \/ \E d \in Deviations :
              asset_tx' = [asset_tx EXCEPT !.content = Deviate(@, d)]
    /\ UNCHANGED <<pvars, rvars, svars>>
    /\ UNCHANGED <<sec_account, chain_account, issued, justified_tx,
                   jcall, vcall, deposits, store, run>>

\* A mediator calls justify_asset_transaction on what it received.
Justify ==
    /\ asset_tx # None /\ jcall = None /\ justified_tx = None
    /\ \E m \in MediatorIds :
           LET res == justify_asset_transaction(asset_tx, chain_account,
                                                MediatorEncKeys(m), MediatorSignKeys(m))
           IN  /\ jcall' = [tx |-> asset_tx, mdtr |-> m, account |-> chain_account,
                            res |-> res]
               /\ justified_tx' = res.out
    /\ UNCHANGED <<pvars, rvars, svars>>
    /\ UNCHANGED <<sec_account, chain_account, issued, asset_tx, vcall, deposits,
                   store, run>>

\* A holder of a mediator's signing key signs what it received without checking it.
SignUnchecked ==
    /\ asset_tx # None /\ jcall = None /\ justified_tx = None
    /\ \E m \in MediatorIds :
           justified_tx' = [content |-> asset_tx,
                            sig |-> Sign(MediatorSignKeys(m),
                                         EncodeInitializedAssetTx(asset_tx))]
    /\ UNCHANGED <<pvars, rvars, svars>>
    /\ UNCHANGED <<sec_account, chain_account, issued, asset_tx, jcall, vcall,
                   deposits, store, run>>

\* Somebody without the mediator's key changes the justified transaction.
TamperJustified ==
    /\ jcall # None /\ jcall.res.ok /\ justified_tx = jcall.res.out /\ vcall = None
    /\ \/ justified_tx' = [justified_tx EXCEPT !.sig = InvalidSignature]
       \/ justified_tx' = [justified_tx EXCEPT !.content.sig = InvalidSignature]
       \/ \E d \in Deviations :
              justified_tx' = [justified_tx EXCEPT !.content.content = Deviate(@, d)]
    /\ UNCHANGED <<pvars, rvars, svars>>
    /\ UNCHANGED <<sec_account, chain_account, issued, asset_tx, jcall, vcall,
                   deposits, store, run>>

\* A validator calls verify_asset_transaction and keeps the account it returns.
Verify ==
    /\ justified_tx # None /\ deposits < MaxDeposits
    /\ \E m \in MediatorIds :
           LET res == verify_asset_transaction(justified_tx, chain_account,
                                               MediatorEncKeys(m).pblc,
                                               MediatorSignKeys(m).public)
           IN  /\ vcall' = [jtx |-> justified_tx, mdtr |-> m, account |-> chain_account,
                            res |-> res]
               /\ chain_account' = IF res.ok THEN res.out ELSE chain_account
               /\ deposits' = IF res.ok THEN deposits + 1 ELSE deposits
    /\ UNCHANGED <<pvars, rvars, svars>>
    /\ UNCHANGED <<sec_account, issued, asset_tx, justified_tx, jcall,
                   store, run>>

\* An issuance that was refused or processed is over: its messages are dropped.
Forget ==
    /\ \/ jcall # None /\ ~jcall.res.ok
       \/ vcall # None
    /\ issued' = None
    /\ asset_tx' = None
    /\ justified_tx' = None
    /\ jcall' = None
    /\ vcall' = None
    /\ UNCHANGED <<pvars, rvars, svars>>
    /\ UNCHANGED <<sec_account, chain_account, deposits, store, run>>

Next ==
    \/ Initialize
    \/ Craft
    \/ TamperInitialized
    \/ Justify
    \/ SignUnchecked
    \/ TamperJustified
    \/ Verify
    \/ Forget

Spec == InitIssuance /\ [][Next]_vars

\* ================================================================== validator tool
MaxMisfiled == 1

Users == {"alice", "bob"}
Mediator == "mike"
SubmittedTxIds == {1}
TxIds == {1, 2}

TxState(phase, sub) == [phase |-> phase, sub |-> sub]
Substates == {"Started", "Verified", "Rejected"}
AssetPhases == {"Initialization", "Justification"}
ConfidentialPhases == {"Initialization", "Finalization", "FinalizationJustification"}

\* the strings of cfg.state
StateStrings == {"INIT_STATE", "JUSTIFY_STATE", "FINISHED_STATE", "JUSTIFICATION_STATE"}

\* file names of mercat_common: one name per object kind, transaction and state
PUBLIC_ACCOUNT_FILE == <<"public_account", 0, "-", "-">>
VALIDATED_PUBLIC_ACCOUNT_FILE == <<"validated_public_account", 0, "-", "-">>
asset_transaction_file(tx_id, state) == <<"asset_tx", tx_id, state.phase, state.sub>>
confidential_transaction_file(tx_id, state) == <<"conf_tx", tx_id, state.phase, state.sub>>

Key(user, file) == <<user>> \o file

Exists(st, user, file) == Key(user, file) \in DOMAIN st
save_object(st, user, file, obj) ==
    [k \in DOMAIN st \cup {Key(user, file)} |->
        IF k = Key(user, file) THEN obj ELSE st[k]]

\* ---- what the objects hold
\* an account as far as the validator is concerned: whether AccountValidator
\* accepts it, and its encrypted balance
UserAccount(user, valid) ==
    [owner |-> user, valid |-> valid, enc_balance |-> ZeroCipher]

\* the data of an instruction: the type it decodes as, whether the library
\* accepts it, and for a transfer the ciphertext it transfers
TxData(kind, valid) ==
    [kind |-> kind, valid |-> valid,
     enc_amount |-> Encrypt(IssuerEncKeys.pblc, [value |-> 1, blinding |-> 1])]

AssetDataKind(phase) ==
    IF phase = "Initialization" THEN "PubAssetTxData" ELSE "PubJustifiedAssetTxData"

ConfidentialDataKind(phase) ==
    CASE phase = "Initialization" -> "PubInitConfidentialTxData"
      [] phase = "Finalization" -> "PubFinalConfidentialTxData"
      [] phase = "FinalizationJustification" -> "JustifiedPubFinalConfidentialTxData"

Instruction(state, data) == [state |-> state, data |-> data]

\* ---- the library's validators: the state they return, or an error
LibOk(state) == [ok |-> TRUE, state |-> state, err |-> "none"]
LibErr(err) == [ok |-> FALSE, state |-> TxState("-", "-"), err |-> err]

AssetTxIssueValidator_verify_initialization(tx, state, issr_pub_account, mdtr_enc_pub_key) ==
    IF state # TxState("Initialization", "Started") \/ ~tx.valid
    THEN LibErr("LibraryError")
    ELSE LibOk(TxState("Initialization", "Verified"))

AssetTxIssueValidator_verify_justification(tx, issr_pub_account, mdtr_sign_pub_key) ==
    IF ~tx.valid THEN LibErr("LibraryError")
    ELSE LibOk(TxState("Justification", "Verified"))

CtxSenderValidator_verify(tx, sender_pub_account, state) ==
    IF state # TxState("Initialization", "Started") \/ ~tx.valid
    THEN LibErr("LibraryError")
    ELSE LibOk(TxState("Initialization", "Verified"))

CtxReceiverValidator_verify_finalize_by_receiver(sender_pub_account, receiver_pub_account, tx, state) ==
    IF state # TxState("Finalization", "Started") \/ ~tx.valid
    THEN LibErr("LibraryError")
    ELSE LibOk(TxState("Finalization", "Verified"))

CtxMediatorValidator_verify(tx, mdtr_sign_pub_key, state) ==
    IF state # TxState("FinalizationJustification", "Started") \/ ~tx.valid
    THEN LibErr("LibraryError")
    ELSE LibOk(TxState("FinalizationJustification", "Verified"))

AccountValidator_verify(account) ==
    IF account.valid THEN LibOk(TxState("-", "-")) ELSE LibErr("LibraryError")

\* ---- the outcome of one run of the tool
\* before: the store the run started from; store: the store it left
Outcome(op, cfg, ok, err, called, loaded, saved_key, saved, before, after) ==
    [op |-> op, cfg |-> cfg, ok |-> ok, err |-> err, called |-> called,
     loaded |-> loaded, saved_key |-> saved_key, saved |-> saved,
     before |-> before, store |-> after]

Failed(op, cfg, err, called, loaded, st) ==
    Outcome(op, cfg, FALSE, err, called, loaded, <<>>, None, st, st)

\* X::decode(..).unwrap(): the bytes decode as the type they were encoded from
Decodes(kind, data) == data.kind = kind

\* process_asset_issuance_init that hands back the state it was given
process_asset_issuance_init_state_kept(instruction, mdtr_account, issr_pub_account) ==
    [called |-> "AssetTxIssueValidator.verify_initialization",
     res |-> LibOk(instruction.state)]

process_asset_issuance_init(instruction, mdtr_account, issr_pub_account) ==
    IF ~Decodes("PubAssetTxData", instruction.data)
    THEN [called |-> "none", res |-> LibErr("panic")]
    ELSE [called |-> "AssetTxIssueValidator.verify_initialization",
          res |-> AssetTxIssueValidator_verify_initialization(
                      instruction.data, instruction.state, issr_pub_account,
                      mdtr_account.owner_enc_pub_key)]

process_asset_issuance_justification(instruction, mdtr_account, issr_pub_account) ==
    IF ~Decodes("PubJustifiedAssetTxData", instruction.data)
    THEN [called |-> "none", res |-> LibErr("panic")]
    ELSE [called |-> "AssetTxIssueValidator.verify_justification",
          res |-> AssetTxIssueValidator_verify_justification(
                      instruction.data, issr_pub_account,
                      mdtr_account.owner_sign_pub_key)]

process_transaction_initialization(instruction, sender_pub_account) ==
    IF ~Decodes("PubInitConfidentialTxData", instruction.data)
    THEN [called |-> "none", res |-> LibErr("panic")]
    ELSE [called |-> "CtxSenderValidator.verify",
          res |-> CtxSenderValidator_verify(instruction.data, sender_pub_account,
                                            instruction.state)]

\* process_transaction_finalization that asks the sender validator
process_transaction_finalization_by_sender_validator(instruction, sender_pub_account, receiver_pub_account) ==
    [called |-> "CtxSenderValidator.verify",
     res |-> CtxSenderValidator_verify(instruction.data, sender_pub_account,
                                       instruction.state)]

process_transaction_finalization(instruction, sender_pub_account, receiver_pub_account) ==
    IF ~Decodes("PubFinalConfidentialTxData", instruction.data)
    THEN [called |-> "none", res |-> LibErr("panic")]
    ELSE [called |-> "CtxReceiverValidator.verify_finalize_by_receiver",
          res |-> CtxReceiverValidator_verify_finalize_by_receiver(
                      sender_pub_account, receiver_pub_account, instruction.data,
                      instruction.state)]

process_transaction_finalization_justification(instruction, mdtr_account) ==
    IF ~Decodes("JustifiedPubFinalConfidentialTxData", instruction.data)
    THEN [called |-> "none", res |-> LibErr("panic")]
    ELSE [called |-> "CtxMediatorValidator.verify",
          res |-> CtxMediatorValidator_verify(instruction.data,
                                              mdtr_account.owner_sign_pub_key,
                                              instruction.state)]

\* mutant: the instruction is dispatched on its phase, whatever its substate
validate_asset_issuance_any_substate(cfg, st) ==
    LET op == "validate_asset_issuance"
        state == IF cfg.state = "INIT_STATE"
                 THEN TxState("Initialization", "Started")
                 ELSE TxState("Justification", "Started")
        file == asset_transaction_file(cfg.tx_id, state)
    IN  IF ~cfg.db_dir
        THEN Failed(op, cfg, "EmptyDatabaseDir", "none", None, st)
        ELSE IF cfg.state \notin {"INIT_STATE", "JUSTIFY_STATE"}
        THEN Failed(op, cfg, "InvalidInstructionError", "none", None, st)
        ELSE IF \/ ~Exists(st, cfg.issuer, file)
                \/ ~Exists(st, cfg.mediator, PUBLIC_ACCOUNT_FILE)
                \/ ~Exists(st, cfg.issuer, VALIDATED_PUBLIC_ACCOUNT_FILE)
        THEN Failed(op, cfg, "FileReadError", "none", None, st)
        ELSE
            LET instruction == st[Key(cfg.issuer, file)]
                mediator_account == st[Key(cfg.mediator, PUBLIC_ACCOUNT_FILE)]
                issuer_account == st[Key(cfg.issuer, VALIDATED_PUBLIC_ACCOUNT_FILE)]
                p == IF instruction.state.phase = "Initialization"
                     THEN process_asset_issuance_init(instruction, mediator_account,
                                                      issuer_account)
                     ELSE IF instruction.state.phase = "Justification"
                     THEN process_asset_issuance_justification(
                              instruction, mediator_account, issuer_account)
                     ELSE [called |-> "none", res |-> LibErr("InvalidInstructionError")]
            IN  IF ~p.res.ok
                THEN Failed(op, cfg, p.res.err, p.called, instruction, st)
                ELSE
                    LET result == p.res.state
                        saved == [instruction EXCEPT !.state = result]
                        new_file == asset_transaction_file(cfg.tx_id, result)
                    IN  Outcome(op, cfg, TRUE, "none", p.called, instruction,
                                Key(cfg.issuer, new_file), saved, st,
                                save_object(st, cfg.issuer, new_file, saved))

\* mutant: the instruction is moved to its new name, not copied
validate_asset_issuance_moves_instruction(cfg, st) ==
    LET op == "validate_asset_issuance"
        state == IF cfg.state = "INIT_STATE"
                 THEN TxState("Initialization", "Started")
                 ELSE TxState("Justification", "Started")
        file == asset_transaction_file(cfg.tx_id, state)
    IN  IF ~cfg.db_dir
        THEN Failed(op, cfg, "EmptyDatabaseDir", "none", None, st)
        ELSE IF cfg.state \notin {"INIT_STATE", "JUSTIFY_STATE"}
        THEN Failed(op, cfg, "InvalidInstructionError", "none", None, st)
        ELSE IF \/ ~Exists(st, cfg.issuer, file)
                \/ ~Exists(st, cfg.mediator, PUBLIC_ACCOUNT_FILE)
                \/ ~Exists(st, cfg.issuer, VALIDATED_PUBLIC_ACCOUNT_FILE)
        THEN Failed(op, cfg, "FileReadError", "none", None, st)
        ELSE
            LET instruction == st[Key(cfg.issuer, file)]
                mediator_account == st[Key(cfg.mediator, PUBLIC_ACCOUNT_FILE)]
                issuer_account == st[Key(cfg.issuer, VALIDATED_PUBLIC_ACCOUNT_FILE)]
                p == IF instruction.state = TxState("Initialization", "Started")
                     THEN process_asset_issuance_init(instruction, mediator_account,
                                                      issuer_account)
                     ELSE IF instruction.state = TxState("Justification", "Started")
                     THEN process_asset_issuance_justification(
                              instruction, mediator_account, issuer_account)
                     ELSE [called |-> "none", res |-> LibErr("InvalidInstructionError")]
            IN  IF ~p.res.ok
                THEN Failed(op, cfg, p.res.err, p.called, instruction, st)
                ELSE
                    LET result == p.res.state
                        saved == [instruction EXCEPT !.state = result]
                        new_file == asset_transaction_file(cfg.tx_id, result)
                    IN  Outcome(op, cfg, TRUE, "none", p.called, instruction,
                                Key(cfg.issuer, new_file), saved, st,
                                [k \in (DOMAIN st \ {Key(cfg.issuer, file)})
                                           \cup {Key(cfg.issuer, new_file)} |->
                                    IF k = Key(cfg.issuer, new_file) THEN saved ELSE st[k]])

validate_asset_issuance(cfg, st) ==
    LET op == "validate_asset_issuance"
        state == IF cfg.state = "INIT_STATE"
                 THEN TxState("Initialization", "Started")
                 ELSE TxState("Justification", "Started")
        file == asset_transaction_file(cfg.tx_id, state)
    IN  IF ~cfg.db_dir
        THEN Failed(op, cfg, "EmptyDatabaseDir", "none", None, st)
        ELSE IF cfg.state \notin {"INIT_STATE", "JUSTIFY_STATE"}
        THEN Failed(op, cfg, "InvalidInstructionError", "none", None, st)
        ELSE IF \/ ~Exists(st, cfg.issuer, file)
                \/ ~Exists(st, cfg.mediator, PUBLIC_ACCOUNT_FILE)
                \/ ~Exists(st, cfg.issuer, VALIDATED_PUBLIC_ACCOUNT_FILE)
        THEN Failed(op, cfg, "FileReadError", "none", None, st)
        ELSE
            LET instruction == st[Key(cfg.issuer, file)]
                mediator_account == st[Key(cfg.mediator, PUBLIC_ACCOUNT_FILE)]
                issuer_account == st[Key(cfg.issuer, VALIDATED_PUBLIC_ACCOUNT_FILE)]
                p == IF instruction.state = TxState("Initialization", "Started")
                     THEN process_asset_issuance_init(instruction, mediator_account,
                                                      issuer_account)
                     ELSE IF instruction.state = TxState("Justification", "Started")
                     THEN process_asset_issuance_justification(
                              instruction, mediator_account, issuer_account)
                     ELSE [called |-> "none", res |-> LibErr("InvalidInstructionError")]
            IN  IF ~p.res.ok
                THEN Failed(op, cfg, p.res.err, p.called, instruction, st)
                ELSE
                    LET result == p.res.state
                        saved == [instruction EXCEPT !.state = result]
                        new_file == asset_transaction_file(cfg.tx_id, result)
                    IN  Outcome(op, cfg, TRUE, "none", p.called, instruction,
                                Key(cfg.issuer, new_file), saved, st,
                                save_object(st, cfg.issuer, new_file, saved))

\* mutant: the account is saved as validated whatever the library answers
validate_account_saved_unverified(cfg, st) ==
    LET op == "validate_account"
    IN  IF ~cfg.db_dir
        THEN Failed(op, cfg, "EmptyDatabaseDir", "none", None, st)
        ELSE IF ~Exists(st, cfg.user, PUBLIC_ACCOUNT_FILE)
        THEN Failed(op, cfg, "FileReadError", "none", None, st)
        ELSE
            LET user_account == st[Key(cfg.user, PUBLIC_ACCOUNT_FILE)]
                res == AccountValidator_verify(user_account)
            IN  IF FALSE
                THEN Failed(op, cfg, res.err, "AccountValidator.verify", user_account, st)
                ELSE Outcome(op, cfg, TRUE, "none", "AccountValidator.verify",
                             user_account, Key(cfg.user, VALIDATED_PUBLIC_ACCOUNT_FILE),
                             user_account, st,
                             save_object(st, cfg.user, VALIDATED_PUBLIC_ACCOUNT_FILE,
                                         user_account))

validate_account(cfg, st) ==
    LET op == "validate_account"
    IN  IF ~cfg.db_dir
        THEN Failed(op, cfg, "EmptyDatabaseDir", "none", None, st)
        ELSE IF ~Exists(st, cfg.user, PUBLIC_ACCOUNT_FILE)
        THEN Failed(op, cfg, "FileReadError", "none", None, st)
        ELSE
            LET user_account == st[Key(cfg.user, PUBLIC_ACCOUNT_FILE)]
                res == AccountValidator_verify(user_account)
            IN  IF ~res.ok
                THEN Failed(op, cfg, res.err, "AccountValidator.verify", user_account, st)
                ELSE Outcome(op, cfg, TRUE, "none", "AccountValidator.verify",
                             user_account, Key(cfg.user, VALIDATED_PUBLIC_ACCOUNT_FILE),
                             user_account, st,
                             save_object(st, cfg.user, VALIDATED_PUBLIC_ACCOUNT_FILE,
                                         user_account))

\* mutant: an instruction the run refuses is saved as Rejected
validate_transaction_records_rejection(cfg, st) ==
    LET op == "validate_transaction"
        state == CASE cfg.state = "INIT_STATE" -> TxState("Initialization", "Started")
                   [] cfg.state = "FINISHED_STATE" -> TxState("Finalization", "Started")
                   [] OTHER -> TxState("FinalizationJustification", "Started")
        file == confidential_transaction_file(cfg.tx_id, state)
    IN  IF ~cfg.db_dir
        THEN Failed(op, cfg, "EmptyDatabaseDir", "none", None, st)
        ELSE IF cfg.state \notin {"INIT_STATE", "FINISHED_STATE", "JUSTIFICATION_STATE"}
        THEN Failed(op, cfg, "InvalidInstructionError", "none", None, st)
        ELSE IF \/ ~Exists(st, cfg.sender, file)
                \/ ~Exists(st, cfg.mediator, PUBLIC_ACCOUNT_FILE)
                \/ ~Exists(st, cfg.sender, VALIDATED_PUBLIC_ACCOUNT_FILE)
                \/ ~Exists(st, cfg.receiver, VALIDATED_PUBLIC_ACCOUNT_FILE)
        THEN Failed(op, cfg, "FileReadError", "none", None, st)
        ELSE
            LET instruction == st[Key(cfg.sender, file)]
                mediator_account == st[Key(cfg.mediator, PUBLIC_ACCOUNT_FILE)]
                sender_account == st[Key(cfg.sender, VALIDATED_PUBLIC_ACCOUNT_FILE)]
                receiver_account == st[Key(cfg.receiver, VALIDATED_PUBLIC_ACCOUNT_FILE)]
                p == IF instruction.state = TxState("Initialization", "Started")
                     THEN process_transaction_initialization(instruction, sender_account)
                     ELSE IF instruction.state = TxState("Finalization", "Started")
                     THEN process_transaction_finalization(instruction, sender_account,
                                                           receiver_account)
                     ELSE IF instruction.state =
                                 TxState("FinalizationJustification", "Started")
                     THEN process_transaction_finalization_justification(
                              instruction, mediator_account)
                     ELSE [called |-> "none", res |-> LibErr("InvalidInstructionError")]
            IN  IF ~p.res.ok
                THEN LET rejected == [instruction EXCEPT !.state.sub = "Rejected"]
                         to == confidential_transaction_file(cfg.tx_id, rejected.state)
                     IN  Outcome(op, cfg, FALSE, p.res.err, p.called, instruction,
                                 Key(cfg.sender, to), rejected, st,
                                 save_object(st, cfg.sender, to, rejected))
                ELSE
                    LET result == p.res.state
                        saved == [instruction EXCEPT !.state = result]
                        new_file == confidential_transaction_file(cfg.tx_id, result)
                    IN  Outcome(op, cfg, TRUE, "none", p.called, instruction,
                                Key(cfg.sender, new_file), saved, st,
                                save_object(st, cfg.sender, new_file, saved))

validate_transaction(cfg, st) ==
    LET op == "validate_transaction"
        state == CASE cfg.state = "INIT_STATE" -> TxState("Initialization", "Started")
                   [] cfg.state = "FINISHED_STATE" -> TxState("Finalization", "Started")
                   [] OTHER -> TxState("FinalizationJustification", "Started")
        file == confidential_transaction_file(cfg.tx_id, state)
    IN  IF ~cfg.db_dir
        THEN Failed(op, cfg, "EmptyDatabaseDir", "none", None, st)
        ELSE IF cfg.state \notin {"INIT_STATE", "FINISHED_STATE", "JUSTIFICATION_STATE"}
        THEN Failed(op, cfg, "InvalidInstructionError", "none", None, st)
        ELSE IF \/ ~Exists(st, cfg.sender, file)
                \/ ~Exists(st, cfg.mediator, PUBLIC_ACCOUNT_FILE)
                \/ ~Exists(st, cfg.sender, VALIDATED_PUBLIC_ACCOUNT_FILE)
                \/ ~Exists(st, cfg.receiver, VALIDATED_PUBLIC_ACCOUNT_FILE)
        THEN Failed(op, cfg, "FileReadError", "none", None, st)
        ELSE
            LET instruction == st[Key(cfg.sender, file)]
                mediator_account == st[Key(cfg.mediator, PUBLIC_ACCOUNT_FILE)]
                sender_account == st[Key(cfg.sender, VALIDATED_PUBLIC_ACCOUNT_FILE)]
                receiver_account == st[Key(cfg.receiver, VALIDATED_PUBLIC_ACCOUNT_FILE)]
                p == IF instruction.state = TxState("Initialization", "Started")
                     THEN process_transaction_initialization(instruction, sender_account)
                     ELSE IF instruction.state = TxState("Finalization", "Started")
                     THEN process_transaction_finalization(instruction, sender_account,
                                                           receiver_account)
                     ELSE IF instruction.state =
                                 TxState("FinalizationJustification", "Started")
                     THEN process_transaction_finalization_justification(
                              instruction, mediator_account)
                     ELSE [called |-> "none", res |-> LibErr("InvalidInstructionError")]
            IN  IF ~p.res.ok
                THEN Failed(op, cfg, p.res.err, p.called, instruction, st)
                ELSE
                    LET result == p.res.state
                        saved == [instruction EXCEPT !.state = result]
                        new_file == confidential_transaction_file(cfg.tx_id, result)
                    IN  Outcome(op, cfg, TRUE, "none", p.called, instruction,
                                Key(cfg.sender, new_file), saved, st,
                                save_object(st, cfg.sender, new_file, saved))

\* ------------------------------------------------------------------ validator: the state machine
Issuer == "alice"
Sender == "alice"
Receiver == "bob"

\* the last run, without the store it left (that is the variable store)
Log(o) == [f \in DOMAIN o \ {"store"} |-> o[f]]

InitValidator ==
    /\ \E bob_valid \in BOOLEAN :
           store = [k \in {Key(u, PUBLIC_ACCOUNT_FILE) : u \in Users \cup {Mediator}} |->
                       IF k = Key(Mediator, PUBLIC_ACCOUNT_FILE)
                       THEN AccountMemo(MediatorEncKeys(1).pblc, MediatorSignKeys(1).public)
                       ELSE IF k = Key("alice", PUBLIC_ACCOUNT_FILE)
                       THEN UserAccount("alice", TRUE)
                       ELSE UserAccount("bob", bob_valid)]
    /\ run = IdleRun
    /\ sec_account = None
    /\ chain_account = None
    /\ issued = None
    /\ asset_tx = None
    /\ justified_tx = None
    /\ jcall = None
    /\ vcall = None
    /\ deposits = 0
    /\ proved = None
    /\ presented = None
    /\ verdict = None
    /\ again = None
    /\ tried = None
    /\ range_proof = None
    /\ range_verdict = None
    /\ range_cipher = None
    /\ cdd_run = None
    /\ claim_run = None
    /\ claim_verdict = None
    /\ uid_run = None

Misfiled(st) ==
    Cardinality({k \in DOMAIN st : k[2] \in {"asset_tx", "conf_tx"}
                                   /\ TxState(k[4], k[5]) # st[k].state})

\* ---- the other tools write the instructions the validator is asked to check:
\* an issuance by an issuer whose account is validated, a transfer once the
\* issuance has come to an end
IssuerSubmits ==
    \E tx_id \in SubmittedTxIds, valid \in BOOLEAN :
        LET state == TxState("Initialization", "Started")
            file == asset_transaction_file(tx_id, state)
        IN  /\ Exists(store, Issuer, VALIDATED_PUBLIC_ACCOUNT_FILE)
            /\ ~Exists(store, Issuer, file)
            /\ store' = save_object(store, Issuer, file,
                            Instruction(state, TxData(AssetDataKind(state.phase), valid)))
            /\ run' = IdleRun
            /\ UNCHANGED <<ivars, pvars, rvars, svars>>

MediatorAnswersIssuance ==
    \E tx_id \in SubmittedTxIds, valid \in BOOLEAN, sub \in {"Started", "Rejected"} :
        LET state == TxState("Justification", sub)
        IN  /\ Exists(store, Issuer, asset_transaction_file(
                                         tx_id, TxState("Initialization", "Verified")))
            /\ \A s \in Substates :
                   ~Exists(store, Issuer, asset_transaction_file(
                                              tx_id, TxState("Justification", s)))
            /\ store' = save_object(store, Issuer, asset_transaction_file(tx_id, state),
                            Instruction(state, TxData(AssetDataKind(state.phase), valid)))
            /\ run' = IdleRun
            /\ UNCHANGED <<ivars, pvars, rvars, svars>>

SenderSubmits ==
    \E tx_id \in SubmittedTxIds, valid \in BOOLEAN :
        LET state == TxState("Initialization", "Started")
            file == confidential_transaction_file(tx_id, state)
        IN  /\ Exists(store, Sender, VALIDATED_PUBLIC_ACCOUNT_FILE)
            /\ \E s \in {"Verified", "Rejected"} :
                   Exists(store, Issuer, asset_transaction_file(
                                             tx_id, TxState("Justification", s)))
            /\ ~Exists(store, Sender, file)
            /\ store' = save_object(store, Sender, file,
                            Instruction(state, TxData(ConfidentialDataKind(state.phase),
                                                      valid)))
            /\ run' = IdleRun
            /\ UNCHANGED <<ivars, pvars, rvars, svars>>

ReceiverFinalizes ==
    \E tx_id \in SubmittedTxIds, valid \in BOOLEAN :
        LET state == TxState("Finalization", "Started")
            file == confidential_transaction_file(tx_id, state)
        IN  /\ Exists(store, Sender, confidential_transaction_file(
                                         tx_id, TxState("Initialization", "Verified")))
            /\ ~Exists(store, Sender, file)
            /\ store' = save_object(store, Sender, file,
                            Instruction(state, TxData(ConfidentialDataKind(state.phase),
                                                      valid)))
            /\ run' = IdleRun
            /\ UNCHANGED <<ivars, pvars, rvars, svars>>

MediatorAnswersTransfer ==
    \E tx_id \in SubmittedTxIds, valid \in BOOLEAN, sub \in {"Started", "Rejected"} :
        LET state == TxState("FinalizationJustification", sub)
        IN  /\ Exists(store, Sender, confidential_transaction_file(
                                         tx_id, TxState("Finalization", "Verified")))
            /\ \A s \in Substates :
                   ~Exists(store, Sender, confidential_transaction_file(
                                              tx_id, TxState("FinalizationJustification", s)))
            /\ store' = save_object(store, Sender,
                            confidential_transaction_file(tx_id, state),
                            Instruction(state, TxData(ConfidentialDataKind(state.phase),
                                                      valid)))
            /\ run' = IdleRun
            /\ UNCHANGED <<ivars, pvars, rvars, svars>>

\* an instruction of the store is filed, as it is, under the name of a Started
\* state of the same kind of transaction
Misfile ==
    /\ Misfiled(store) < MaxMisfiled
    /\ \E from \in DOMAIN store :
           /\ from[2] \in {"asset_tx", "conf_tx"}
           /\ \E phase \in (IF from[2] = "asset_tx" THEN AssetPhases
                            ELSE ConfidentialPhases) :
                  LET to == <<from[1], from[2], from[3], phase, "Started">>
                  IN  /\ to # from
                      /\ store' = [k \in DOMAIN store \cup {to} |->
                                      IF k = to THEN store[from] ELSE store[k]]
    /\ run' = IdleRun
    /\ UNCHANGED <<ivars, pvars, rvars, svars>>

\* ---- the validator tool is run
\* the command lines the tool is given: every state string for a submitted
\* transaction, one for a transaction nobody submitted, and one without a
\* database directory
AccountCfgs ==
    [db_dir : {TRUE}, user : Users] \cup [db_dir : {FALSE}, user : {Issuer}]

IssuanceCfgs ==
    [db_dir : {TRUE}, state : StateStrings, tx_id : SubmittedTxIds,
     issuer : {Issuer}, mediator : {Mediator}]
    \cup [db_dir : {TRUE}, state : {"INIT_STATE"}, tx_id : TxIds \ SubmittedTxIds,
           issuer : {Issuer}, mediator : {Mediator}]
    \cup [db_dir : {FALSE}, state : {"INIT_STATE"}, tx_id : SubmittedTxIds,
           issuer : {Issuer}, mediator : {Mediator}]

TransactionCfgs ==
    [db_dir : {TRUE}, state : StateStrings, tx_id : SubmittedTxIds,
     sender : {Sender}, receiver : {Receiver}, mediator : {Mediator}]
    \cup [db_dir : {TRUE}, state : {"INIT_STATE"}, tx_id : TxIds \ SubmittedTxIds,
           sender : {Sender}, receiver : {Receiver}, mediator : {Mediator}]
    \cup [db_dir : {FALSE}, state : {"INIT_STATE"}, tx_id : SubmittedTxIds,
           sender : {Sender}, receiver : {Receiver}, mediator : {Mediator}]

ValidateAccount ==
    \E cfg \in AccountCfgs :
        LET o == validate_account(cfg, store)
        IN  /\ store' = o.store
            /\ run' = Log(o)
            /\ UNCHANGED <<ivars, pvars, rvars, svars>>

ValidateIssuance ==
    \E cfg \in IssuanceCfgs :
        LET o == validate_asset_issuance(cfg, store)
        IN  /\ store' = o.store
            /\ run' = Log(o)
            /\ UNCHANGED <<ivars, pvars, rvars, svars>>

ValidateTransaction ==
    \E cfg \in TransactionCfgs :
        LET o == validate_transaction(cfg, store)
        IN  /\ store' = o.store
            /\ run' = Log(o)
            /\ UNCHANGED <<ivars, pvars, rvars, svars>>

NextValidator ==
    \/ IssuerSubmits
    \/ MediatorAnswersIssuance
    \/ SenderSubmits
    \/ ReceiverFinalizes
    \/ MediatorAnswersTransfer
    \/ Misfile
    \/ ValidateAccount
    \/ ValidateIssuance
    \/ ValidateTransaction

SpecValidator == InitValidator /\ [][NextValidator]_vars

\* ================================================================== claims: asset issuance

\* the checks of asset.rs, stated on a call's inputs
IssuerSigValid(tx, account) ==
    SigVerify(account.content.memo.owner_sign_pub_key, EncodeContent(tx.content), tx.sig)

AssetIdProofValid(tx, account, m) ==
    tx.content.asset_id_equal_cipher_proof =
        [kind |-> "EncryptingSameValue",
         pub_key1 |-> account.content.memo.owner_enc_pub_key,
         pub_key2 |-> MediatorEncKeys(m).pblc,
         cipher1 |-> account.content.enc_asset_id,
         cipher2 |-> tx.content.enc_asset_id]

WellformednessProofValid(tx, account) ==
    tx.content.balance_wellformedness_proof =
        [kind |-> "Wellformedness",
         pub_key |-> account.content.memo.owner_enc_pub_key,
         cipher |-> tx.content.memo]

AmountDecrypts(tx, m) ==
    tx.content.enc_amount.x = MediatorEncKeys(m).scrt * tx.content.enc_amount.y.g

CorrectnessProofValid(tx, account, m) ==
    tx.content.balance_correctness_proof =
        [kind |-> "Correctness",
         pub_key |-> account.content.memo.owner_enc_pub_key,
         cipher |-> tx.content.memo,
         value |-> tx.content.enc_amount.y.h]

MediatorSigValid(jtx, m) ==
    /\ jtx.sig.signer = MediatorSignKeys(m).public
    /\ jtx.sig.msg = EncodeContent(jtx.content.content) \o <<jtx.content.sig>>

JustifyCalled == jcall # None
VerifyCalled == vcall # None

\* justify was called on the transaction initialize returned, by the mediator it
\* was encrypted to, for an account that belongs to the issuer's secret account
HonestJustify ==
    /\ JustifyCalled /\ issued # None
    /\ jcall.tx = issued.tx
    /\ jcall.mdtr = issued.mdtr
    /\ Derived(jcall.account, sec_account)

\* verify was called on what that justify returned, with that mediator's keys
HonestVerify ==
    /\ HonestJustify /\ jcall.res.ok /\ VerifyCalled
    /\ vcall.jtx = jcall.res.out
    /\ vcall.mdtr = jcall.mdtr
    /\ Derived(vcall.account, sec_account)

\* C1: for an issuer public account derived from the issuer's secret account, a
\* transaction returned by initialize_asset_transaction is accepted by
\* justify_asset_transaction run with the keys of the mediator it was encrypted
\* to, and the JustifiedAssetTx this returns is accepted by
\* verify_asset_transaction run with that mediator's public keys.
C1_HonestIssuanceAccepted ==
    /\ HonestJustify => jcall.res.ok /\ jcall.res.out # None
    /\ HonestVerify => vcall.res.ok /\ vcall.res.out # None

C1_Witness == HonestVerify /\ vcall.res.ok

\* C2: when verify_asset_transaction accepts an honestly issued transaction of
\* amount a against an account whose balance decrypts to b, the balance of the
\* returned account is the homomorphic sum of the old balance and the memo and
\* decrypts under the issuer's secret key to b + a.
C2_DepositAddsAmount ==
    (HonestVerify /\ vcall.res.ok
       /\ Decrypt(sec_account.enc_keys.scrt, vcall.account.content.enc_balance).ok) =>
        LET old == vcall.account.content.enc_balance
            new == vcall.res.out.content.enc_balance
            b == Decrypt(sec_account.enc_keys.scrt, old).val
        IN  /\ new = CipherAdd(old, issued.tx.content.memo)
            /\ Decrypt(sec_account.enc_keys.scrt, new).ok
            /\ Decrypt(sec_account.enc_keys.scrt, new).val = b + issued.amount
            /\ ElgamalVerify(sec_account.enc_keys.scrt, new, b + issued.amount)

C2_Witness ==
    /\ HonestVerify /\ vcall.res.ok
    /\ Decrypt(sec_account.enc_keys.scrt, vcall.account.content.enc_balance).val = 1
    /\ issued.amount = 2
    /\ Decrypt(sec_account.enc_keys.scrt, chain_account.content.enc_balance).val = 3

\* the error of the first check of justify_asset_transaction that fails, in the
\* order signature, asset id proof, well-formedness proof, decryption, correctness
JustifyFirstFailure(tx, account, m) ==
    IF ~IssuerSigValid(tx, account) THEN "SignatureValidationFailure"
    ELSE IF ~AssetIdProofValid(tx, account, m)
    THEN "EncryptingSameValueFinalResponseVerificationError"
    ELSE IF ~WellformednessProofValid(tx, account)
    THEN "WellformednessFinalResponseVerificationError"
    ELSE IF ~AmountDecrypts(tx, m) THEN "NotPublicKey"
    ELSE IF ~CorrectnessProofValid(tx, account, m)
    THEN "CorrectnessFinalResponseVerificationError"
    ELSE "none"

JustifyOrder ==
    <<"issuer_sig", "asset_id_equal_cipher_proof", "balance_wellformedness_proof",
      "decrypt_enc_amount", "balance_correctness_proof", "mediator_sign">>

IsPrefix(s, t) == Len(s) <= Len(t) /\ s = SubSeq(t, 1, Len(s))

\* C3: justify_asset_transaction signs only if the issuer's signature, the asset
\* id proof, the memo's well-formedness proof, the decryption of enc_amount and
\* the memo's correctness proof against the decrypted amount have all succeeded,
\* in this order; if one fails it returns that check's error and signs nothing.
C3_JustifySignsOnlyAfterAllChecks ==
    JustifyCalled =>
        LET first == JustifyFirstFailure(jcall.tx, jcall.account, jcall.mdtr)
        IN  /\ jcall.res.ok <=> first = "none"
            /\ jcall.res.err = first
            /\ IsPrefix(jcall.res.checks, JustifyOrder)
            /\ jcall.res.ok =>
                   /\ jcall.res.checks = JustifyOrder
                   /\ jcall.res.out.sig =
                          Sign(MediatorSignKeys(jcall.mdtr),
                               EncodeInitializedAssetTx(jcall.tx))
            /\ ~jcall.res.ok =>
                   /\ jcall.res.out = None
                   /\ justified_tx = None
                   /\ "mediator_sign" \notin {jcall.res.checks[i] :
                                                 i \in 1..Len(jcall.res.checks)}

\* a transaction whose signature and first two proofs hold is refused for its
\* amount alone
C3_Witness ==
    /\ JustifyCalled /\ ~jcall.res.ok
    /\ jcall.res.err = "CorrectnessFinalResponseVerificationError"
    /\ IssuerSigValid(jcall.tx, jcall.account)

ChecksOf(res) == {res.checks[i] : i \in 1..Len(res.checks)}

VerifyFirstFailure(jtx, account, m) ==
    IF ~MediatorSigValid(jtx, m) THEN "SignatureValidationFailure"
    ELSE IF ~IssuerSigValid(jtx.content, account) THEN "SignatureValidationFailure"
    ELSE IF ~AssetIdProofValid(jtx.content, account, m)
    THEN "EncryptingSameValueFinalResponseVerificationError"
    ELSE IF ~WellformednessProofValid(jtx.content, account)
    THEN "WellformednessFinalResponseVerificationError"
    ELSE "none"

VerifyOrder ==
    <<"mediator_sig", "issuer_sig", "asset_id_equal_cipher_proof",
      "balance_wellformedness_proof", "deposit">>

\* C5: verify_asset_transaction returns an updated account only after the
\* mediator's signature over the encoded InitializedAssetTx has verified, first,
\* and the issuer's signature and the initialization checks have verified,
\* second; if a check fails it returns the error and no account, and no deposit
\* is applied.
C5_VerifyDepositsOnlyAfterAllChecks ==
    VerifyCalled =>
        LET first == VerifyFirstFailure(vcall.jtx, vcall.account, vcall.mdtr)
        IN  /\ vcall.res.ok <=> first = "none"
            /\ vcall.res.err = first
            /\ IsPrefix(vcall.res.checks, VerifyOrder)
            /\ ~MediatorSigValid(vcall.jtx, vcall.mdtr) =>
                   vcall.res.checks = <<"mediator_sig">>
            /\ vcall.res.ok =>
                   /\ vcall.res.checks = VerifyOrder
                   /\ vcall.res.out # None
                   /\ chain_account = vcall.res.out
            /\ ~vcall.res.ok =>
                   /\ vcall.res.out = None
                   /\ "deposit" \notin ChecksOf(vcall.res)
                   /\ chain_account = vcall.account

\* the mediator's signature holds and the issuer's checks refuse the transaction
C5_Witness ==
    /\ VerifyCalled /\ ~vcall.res.ok
    /\ MediatorSigValid(vcall.jtx, vcall.mdtr)
    /\ vcall.res.checks = <<"mediator_sig", "issuer_sig">>

\* C6: a signature replaced by an invalid one is refused with
\* SignatureValidationFailure by the next verifier: justify_asset_transaction
\* when the issuer's signature is replaced, verify_asset_transaction when the
\* mediator's signature is replaced and when the issuer's signature nested in
\* the content is replaced.
C6_ReplacedSignatureRefused ==
    /\ (JustifyCalled /\ jcall.tx.sig = InvalidSignature) =>
           ~jcall.res.ok /\ jcall.res.err = "SignatureValidationFailure"
    /\ (VerifyCalled /\ vcall.jtx.sig = InvalidSignature) =>
           ~vcall.res.ok /\ vcall.res.err = "SignatureValidationFailure"
    /\ (VerifyCalled /\ vcall.jtx.content.sig = InvalidSignature) =>
           ~vcall.res.ok /\ vcall.res.err = "SignatureValidationFailure"

\* each of the three replacements of the test has been refused: here the
\* nested one, on a transaction the mediator had justified
C6_Witness ==
    /\ VerifyCalled /\ JustifyCalled /\ jcall.res.ok
    /\ vcall.jtx = [jcall.res.out EXCEPT !.content.sig = InvalidSignature]
    /\ vcall.res.err = "SignatureValidationFailure"

C6_WitnessJustify ==
    /\ JustifyCalled /\ issued # None
    /\ jcall.tx = [issued.tx EXCEPT !.sig = InvalidSignature]
    /\ jcall.res.err = "SignatureValidationFailure"

C6_WitnessMediatorSig ==
    /\ VerifyCalled /\ JustifyCalled /\ jcall.res.ok
    /\ vcall.jtx = [jcall.res.out EXCEPT !.sig = InvalidSignature]
    /\ vcall.res.err = "SignatureValidationFailure"

\* ================================================================== claims: the validator tool
IssuanceRun == run # IdleRun /\ run.op = "validate_asset_issuance"
TransactionRun == run # IdleRun /\ run.op = "validate_transaction"

\* the place of a state on the line
\* Initialization(Started) -> Initialization(Verified) -> Justification(Started)
\* -> Justification(Verified)
AssetRank(state) ==
    (IF state.phase = "Initialization" THEN 0 ELSE 2)
    + (IF state.sub = "Verified" THEN 1 ELSE 0)

\* the validator validate_transaction is to ask for an instruction of a phase
ValidatorOf(phase) ==
    CASE phase = "Initialization" -> "CtxSenderValidator.verify"
      [] phase = "Finalization" -> "CtxReceiverValidator.verify_finalize_by_receiver"
      [] phase = "FinalizationJustification" -> "CtxMediatorValidator.verify"

\* the state the caller asks for with cfg.state
RequestedAssetState(string) ==
    IF string = "INIT_STATE" THEN TxState("Initialization", "Started")
    ELSE TxState("Justification", "Started")

RequestedConfidentialState(string) ==
    CASE string = "INIT_STATE" -> TxState("Initialization", "Started")
      [] string = "FINISHED_STATE" -> TxState("Finalization", "Started")
      [] OTHER -> TxState("FinalizationJustification", "Started")

\* C7: a successful validate_asset_issuance run was applied to an instruction
\* recorded as Started, and what it records, in the instruction and in the name
\* of the file it saves, is the Verified state of the same phase: the next state
\* on the line, never an earlier one and never one further on.
C7_IssuanceStateMovesOneStepForward ==
    (IssuanceRun /\ run.ok) =>
        /\ run.loaded.state.phase \in AssetPhases
        /\ run.loaded.state.sub = "Started"
        /\ run.saved.state = TxState(run.loaded.state.phase, "Verified")
        /\ AssetRank(run.saved.state) = AssetRank(run.loaded.state) + 1
        /\ run.saved.data = run.loaded.data
        /\ run.saved_key =
               Key(run.cfg.issuer, asset_transaction_file(run.cfg.tx_id, run.saved.state))
        /\ run.saved_key \in DOMAIN store
        /\ store[run.saved_key] = run.saved
        /\ \A k \in DOMAIN run.before : k # run.saved_key => store[k] = run.before[k]

C7_Witness ==
    /\ IssuanceRun
    /\ run.ok
    /\ run.loaded.state = TxState("Justification", "Started")
    /\ Key(Issuer, asset_transaction_file(run.cfg.tx_id,
                                          TxState("Initialization", "Verified")))
           \in DOMAIN run.before
    /\ store[run.saved_key].state = TxState("Justification", "Verified")

\* C8: validate_transaction asks the sender validator about an instruction
\* recorded as Initialization(Started), the receiver validator about one recorded
\* as Finalization(Started) and the mediator validator about one recorded as
\* FinalizationJustification(Started), asks no validator about any other
\* instruction, and on success records the Verified state of that same phase.
C8_TransferCheckedByThePhasesValidator ==
    TransactionRun =>
        /\ run.called # "none" =>
               /\ run.loaded.state.phase \in ConfidentialPhases
               /\ run.loaded.state.sub = "Started"
               /\ run.called = ValidatorOf(run.loaded.state.phase)
        /\ run.ok =>
               /\ run.called # "none"
               /\ run.saved.state = TxState(run.loaded.state.phase, "Verified")
               /\ run.saved.data = run.loaded.data
               /\ run.saved_key =
                      Key(run.cfg.sender,
                          confidential_transaction_file(run.cfg.tx_id, run.saved.state))
               /\ run.saved_key \in DOMAIN store
               /\ store[run.saved_key] = run.saved

C8_Witness ==
    /\ TransactionRun
    /\ run.ok
    /\ run.called = "CtxReceiverValidator.verify_finalize_by_receiver"
    /\ run.loaded.state = TxState("Finalization", "Started")
    /\ store[run.saved_key].state = TxState("Finalization", "Verified")

\* C9 as the specification states it: a run that loaded an instruction whose
\* recorded state is not the state asked for with cfg.state fails with
\* InvalidInstructionError.
C9_Original ==
    /\ (IssuanceRun /\ run.loaded # None
            /\ run.loaded.state # RequestedAssetState(run.cfg.state))
           => (~run.ok /\ run.err = "InvalidInstructionError")
    /\ (TransactionRun /\ run.loaded # None
            /\ run.loaded.state # RequestedConfidentialState(run.cfg.state))
           => (~run.ok /\ run.err = "InvalidInstructionError")

\* C10 as the specification states it: once validate_transaction has recorded
\* FinalizationJustification(Verified), the transferred ciphertext is subtracted
\* from the sender's validated account and added to the receiver's.
C10_Original ==
    (TransactionRun /\ run.ok
         /\ run.saved.state = TxState("FinalizationJustification", "Verified")) =>
        LET sender == Key(run.cfg.sender, VALIDATED_PUBLIC_ACCOUNT_FILE)
            receiver == Key(run.cfg.receiver, VALIDATED_PUBLIC_ACCOUNT_FILE)
        IN  /\ store[sender].enc_balance =
                   CipherSub(run.before[sender].enc_balance, run.loaded.data.enc_amount)
            /\ store[receiver].enc_balance =
                   CipherAdd(run.before[receiver].enc_balance, run.loaded.data.enc_amount)

\* ================================================================== sigma proof drivers
\* asset_proofs/encryption_proofs.rs, driven with the correctness proof as in
\* its tests.  A scalar is an integer, a point on G alone its exponent, a
\* point a.G + b.H the pair [g |-> a, h |-> b].
MaxSeed == 2
MaxScalar == 2

Seeds == 0..MaxSeed

ENCRYPTION_PROOFS_LABEL == "PolymathEncryptionProofs"
ENCRYPTION_PROOFS_CHALLENGE_LABEL == "PolymathEncryptionProofsChallenge"

Ok == [ok |-> TRUE, err |-> "none"]
Err(err) == [ok |-> FALSE, err |-> err]

\* ---- the external RNG: a stream of scalars, each drawn once
StdRng_from_seed(seed) == seed
RngDraw(rng) == [value |-> rng, rng |-> rng + 1]

\* ---- the transcript: its label and the numbers appended so far
Transcript_new(label) == [label |-> label, log |-> <<>>]

\* the hash of a transcript: one to one on the transcripts of the model, never
\* zero; every appended number is below 16
RECURSIVE HashFrom(_, _)
HashFrom(h, log) ==
    IF log = <<>> THEN h ELSE HashFrom(h * 16 + Head(log), Tail(log))

Hash(transcript) == HashFrom(1, transcript.log)

\* ---- ZKPChallenge
\* mutant: the constructor takes every scalar
ZKPChallenge_try_from_unchecked(x) ==
    [ok |-> TRUE, err |-> "none", challenge |-> [x |-> x]]

ZKPChallenge_try_from(x) ==
    IF x = 0
    THEN [ok |-> FALSE, err |-> "VerificationError", challenge |-> None]
    ELSE [ok |-> TRUE, err |-> "none", challenge |-> [x |-> x]]

scalar_challenge(transcript, label) == ZKPChallenge_try_from(Hash(transcript))

\* ---- the correctness proof: ct = (X, Y) under P encrypts v, X = r.P, Y = r.G + v.H
CorrectnessProverAwaitingChallenge_new(pub_key, w) == [pub_key |-> pub_key, w |-> w]
CorrectnessVerifier_new(value, pub_key, cipher) ==
    [value |-> value, pub_key |-> pub_key, cipher |-> cipher]

create_correctness_proof_objects_helper(plain_text, rand_blind, elg_secret) ==
    LET w == [value |-> plain_text, blinding |-> rand_blind]
        elg_pub == EncKeys(elg_secret).pblc
        cipher == Encrypt(elg_pub, w)
    IN  [prover |-> CorrectnessProverAwaitingChallenge_new(elg_pub, w),
         verifier |-> CorrectnessVerifier_new(plain_text, elg_pub, cipher)]

\* the transcript RNG of one prover takes one draw of the external RNG
create_transcript_rng(prover_ac, rng, transcript) ==
    LET d == RngDraw(rng) IN [transcript_rng |-> d.value, rng |-> d.rng]

\* A = u.P, B = u.G
generate_initial_message(prover_ac, transcript_rng) ==
    LET u == transcript_rng
    IN  [prover |-> [w |-> prover_ac.w, u |-> u],
         initial_message |-> [a |-> u * prover_ac.pub_key, b |-> [g |-> u, h |-> 0]]]

\* z = u + x.r
apply_challenge(prover, challenge) == prover.u + challenge.x * prover.w.blinding

\* check 1: z.P = A + x.X;  check 2: z.G = B + x.(Y - v.H)
CorrectnessVerifier_verify(verifier, challenge, initial_message, final_response) ==
    IF final_response * verifier.pub_key
           # initial_message.a + challenge.x * verifier.cipher.x
    THEN Err("CorrectnessFinalResponseVerificationError{check: 1}")
    ELSE IF \/ final_response
                   # initial_message.b.g + challenge.x * verifier.cipher.y.g
            \/ 0 # initial_message.b.h
                   + challenge.x * (verifier.cipher.y.h - verifier.value)
    THEN Err("CorrectnessFinalResponseVerificationError{check: 2}")
    ELSE Ok

CorrectnessInitialMessage_default == [a |-> 1, b |-> [g |-> 1, h |-> 0]]
IdentityInitialMessage == [a |-> 0, b |-> [g |-> 0, h |-> 0]]

IsIdentity(point) == point.g = 0 /\ point.h = 0

\* appends the two points of the message; an identity point is refused
update_transcript(initial_message, transcript) ==
    IF initial_message.a = 0 \/ IsIdentity(initial_message.b)
    THEN [ok |-> FALSE, err |-> "VerificationError", transcript |-> transcript]
    ELSE [ok |-> TRUE, err |-> "none",
          transcript |-> [transcript EXCEPT
                             !.log = @ \o <<initial_message.a, initial_message.b.g,
                                            initial_message.b.h>>]]

\* ---- the steps of the drivers
\* provers.iter().map(create_transcript_rng, generate_initial_message).unzip():
\* every prover draws its own transcript RNG from the external RNG, on the
\* transcript as it is before any message is appended
GenerateInitialMessages(provers, rng, transcript) ==
    LET gen[i \in 0..Len(provers)] ==
            IF i = 0
            THEN [rng |-> rng, provers_vec |-> <<>>, initial_messages_vec |-> <<>>]
            ELSE LET prev == gen[i - 1]
                     t == create_transcript_rng(provers[i], prev.rng, transcript)
                     m == generate_initial_message(provers[i], t.transcript_rng)
                 IN  [rng |-> t.rng,
                      provers_vec |-> Append(prev.provers_vec, m.prover),
                      initial_messages_vec |->
                          Append(prev.initial_messages_vec, m.initial_message)]
    IN  gen[Len(provers)]

\* initial_messages.iter().map(update_transcript).collect::<Result<()>>()?:
\* the messages are appended in order and the first failure ends the iteration
UpdateTranscripts(initial_messages, transcript) ==
    LET fold[i \in 0..Len(initial_messages)] ==
            IF i = 0
            THEN [ok |-> TRUE, err |-> "none", transcript |-> transcript, steps |-> <<>>]
            ELSE LET prev == fold[i - 1]
                     u == update_transcript(initial_messages[i], prev.transcript)
                 IN  IF ~prev.ok THEN prev
                     ELSE [ok |-> u.ok, err |-> u.err, transcript |-> u.transcript,
                           steps |-> Append(prev.steps, "update_transcript")]
    IN  fold[Len(initial_messages)]

\* provers_vec.into_iter().map(apply_challenge).collect()
ApplyChallenges(provers_vec, challenge) ==
    [i \in 1..Len(provers_vec) |-> apply_challenge(provers_vec[i], challenge)]

\* for i in 0..verifiers.len() { verifiers[i].verify(..)? }
VerifyEach(verifiers, challenge, initial_messages, final_responses) ==
    LET loop[i \in 0..Len(verifiers)] ==
            IF i = 0 THEN [ok |-> TRUE, err |-> "none", steps |-> <<>>]
            ELSE LET prev == loop[i - 1]
                     v == CorrectnessVerifier_verify(verifiers[i], challenge,
                                                     initial_messages[i],
                                                     final_responses[i])
                 IN  IF ~prev.ok THEN prev
                     ELSE [ok |-> v.ok, err |-> v.err,
                           steps |-> Append(prev.steps, "verify")]
    IN  loop[Len(verifiers)]

Steps(name, n) == [i \in 1..n |-> name]

ProverFailed(err, steps, rng) ==
    [ok |-> FALSE, err |-> err, steps |-> steps, challenge |-> None,
     initial_messages |-> <<>>, final_responses |-> <<>>, rng |-> rng]

VerifierFailed(err, steps, challenge) ==
    [ok |-> FALSE, err |-> err, steps |-> steps, challenge |-> challenge]

\* ---- prove_multiple_encryption_properties
\* mutant: the challenge is derived before the initial messages are appended
prove_multiple_encryption_properties_challenge_first(provers, rng) ==
    LET transcript == Transcript_new(ENCRYPTION_PROOFS_LABEL)
        gen == GenerateInitialMessages(provers, rng, transcript)
        c == scalar_challenge(transcript, ENCRYPTION_PROOFS_CHALLENGE_LABEL)
        upd == UpdateTranscripts(gen.initial_messages_vec, transcript)
        steps == Steps("generate_initial_message", Len(provers)) \o <<"scalar_challenge">>
    IN  IF ~c.ok THEN ProverFailed(c.err, steps, gen.rng)
        ELSE IF ~upd.ok THEN ProverFailed(upd.err, steps \o upd.steps, gen.rng)
        ELSE [ok |-> TRUE, err |-> "none",
              steps |-> steps \o upd.steps \o Steps("apply_challenge", Len(provers)),
              challenge |-> c.challenge,
              initial_messages |-> gen.initial_messages_vec,
              final_responses |-> ApplyChallenges(gen.provers_vec, c.challenge),
              rng |-> gen.rng]

\* mutant: the result of update_transcript is dropped (no `?`)
prove_multiple_encryption_properties_update_unchecked(provers, rng) ==
    LET transcript == Transcript_new(ENCRYPTION_PROOFS_LABEL)
        gen == GenerateInitialMessages(provers, rng, transcript)
        upd == UpdateTranscripts(gen.initial_messages_vec, transcript)
        steps == Steps("generate_initial_message", Len(provers)) \o upd.steps
        c == scalar_challenge(upd.transcript, ENCRYPTION_PROOFS_CHALLENGE_LABEL)
    IN  IF ~c.ok THEN ProverFailed(c.err, steps \o <<"scalar_challenge">>, gen.rng)
        ELSE [ok |-> TRUE, err |-> "none",
              steps |-> steps \o <<"scalar_challenge">>
                            \o Steps("apply_challenge", Len(provers)),
              challenge |-> c.challenge,
              initial_messages |-> gen.initial_messages_vec,
              final_responses |-> ApplyChallenges(gen.provers_vec, c.challenge),
              rng |-> gen.rng]

\* mutant: the provers' randomness also depends on whether a prover ran before
prove_multiple_encryption_properties_counting_runs(provers, rng) ==
    LET transcript == Transcript_new(ENCRYPTION_PROOFS_LABEL)
        gen == GenerateInitialMessages(provers,
                                       rng + (IF proved = None THEN 0 ELSE 1), transcript)
        upd == UpdateTranscripts(gen.initial_messages_vec, transcript)
        steps == Steps("generate_initial_message", Len(provers)) \o upd.steps
        c == scalar_challenge(upd.transcript, ENCRYPTION_PROOFS_CHALLENGE_LABEL)
    IN  IF ~upd.ok THEN ProverFailed(upd.err, steps, gen.rng)
        ELSE IF ~c.ok THEN ProverFailed(c.err, steps \o <<"scalar_challenge">>, gen.rng)
        ELSE [ok |-> TRUE, err |-> "none",
              steps |-> steps \o <<"scalar_challenge">>
                            \o Steps("apply_challenge", Len(provers)),
              challenge |-> c.challenge,
              initial_messages |-> gen.initial_messages_vec,
              final_responses |-> ApplyChallenges(gen.provers_vec, c.challenge),
              rng |-> gen.rng]

\* mutant: every prover answers the challenge of the transcript as it is
\* after its own initial message
prove_multiple_encryption_properties_challenge_per_prover(provers, rng) ==
    LET transcript == Transcript_new(ENCRYPTION_PROOFS_LABEL)
        gen == GenerateInitialMessages(provers, rng, transcript)
        upd == UpdateTranscripts(gen.initial_messages_vec, transcript)
        steps == Steps("generate_initial_message", Len(provers)) \o upd.steps
        c == scalar_challenge(upd.transcript, ENCRYPTION_PROOFS_CHALLENGE_LABEL)
        own(i) == scalar_challenge(
                      UpdateTranscripts(SubSeq(gen.initial_messages_vec, 1, i),
                                        transcript).transcript,
                      ENCRYPTION_PROOFS_CHALLENGE_LABEL).challenge
    IN  IF ~upd.ok THEN ProverFailed(upd.err, steps, gen.rng)
        ELSE IF ~c.ok THEN ProverFailed(c.err, steps \o <<"scalar_challenge">>, gen.rng)
        ELSE [ok |-> TRUE, err |-> "none",
              steps |-> steps \o <<"scalar_challenge">>
                            \o Steps("apply_challenge", Len(provers)),
              challenge |-> c.challenge,
              initial_messages |-> gen.initial_messages_vec,
              final_responses |->
                  [i \in 1..Len(provers) |-> apply_challenge(gen.provers_vec[i], own(i))],
              rng |-> gen.rng]

\* mutant: one transcript RNG is created, by the first prover, and handed to
\* every prover
prove_multiple_encryption_properties_shared_transcript_rng(provers, rng) ==
    LET transcript == Transcript_new(ENCRYPTION_PROOFS_LABEL)
        t == IF provers = <<>> THEN [transcript_rng |-> 0, rng |-> rng]
             ELSE create_transcript_rng(provers[1], rng, transcript)
        m(i) == generate_initial_message(provers[i], t.transcript_rng)
        provers_vec == [i \in 1..Len(provers) |-> m(i).prover]
        initial_messages_vec == [i \in 1..Len(provers) |-> m(i).initial_message]
        upd == UpdateTranscripts(initial_messages_vec, transcript)
        steps == Steps("generate_initial_message", Len(provers)) \o upd.steps
        c == scalar_challenge(upd.transcript, ENCRYPTION_PROOFS_CHALLENGE_LABEL)
    IN  IF ~upd.ok THEN ProverFailed(upd.err, steps, t.rng)
        ELSE IF ~c.ok THEN ProverFailed(c.err, steps \o <<"scalar_challenge">>, t.rng)
        ELSE [ok |-> TRUE, err |-> "none",
              steps |-> steps \o <<"scalar_challenge">>
                            \o Steps("apply_challenge", Len(provers)),
              challenge |-> c.challenge,
              initial_messages |-> initial_messages_vec,
              final_responses |-> ApplyChallenges(provers_vec, c.challenge),
              rng |-> t.rng]

prove_multiple_encryption_properties(provers, rng) ==
    LET transcript == Transcript_new(ENCRYPTION_PROOFS_LABEL)
        gen == GenerateInitialMessages(provers, rng, transcript)
        upd == UpdateTranscripts(gen.initial_messages_vec, transcript)
        steps == Steps("generate_initial_message", Len(provers)) \o upd.steps
        c == scalar_challenge(upd.transcript, ENCRYPTION_PROOFS_CHALLENGE_LABEL)
    IN  IF ~upd.ok THEN ProverFailed(upd.err, steps, gen.rng)
        ELSE IF ~c.ok THEN ProverFailed(c.err, steps \o <<"scalar_challenge">>, gen.rng)
        ELSE [ok |-> TRUE, err |-> "none",
              steps |-> steps \o <<"scalar_challenge">>
                            \o Steps("apply_challenge", Len(provers)),
              challenge |-> c.challenge,
              initial_messages |-> gen.initial_messages_vec,
              final_responses |-> ApplyChallenges(gen.provers_vec, c.challenge),
              rng |-> gen.rng]

\* initial_messages.remove(0), final_responses.remove(0)
single_property_prover(prover_ac, rng) ==
    LET r == prove_multiple_encryption_properties(<<prover_ac>>, rng)
    IN  IF ~r.ok
        THEN [ok |-> FALSE, err |-> r.err, steps |-> r.steps, challenge |-> None,
              initial_message |-> None, final_response |-> None, rng |-> r.rng]
        ELSE [ok |-> TRUE, err |-> "none", steps |-> r.steps, challenge |-> r.challenge,
              initial_message |-> Head(r.initial_messages),
              final_response |-> Head(r.final_responses), rng |-> r.rng]

\* ---- verify_multiple_encryption_properties
\* a canonical order of initial messages
MessageBefore(m1, m2) ==
    \/ m1.a < m2.a
    \/ m1.a = m2.a /\ m1.b.g < m2.b.g
    \/ m1.a = m2.a /\ m1.b.g = m2.b.g /\ m1.b.h <= m2.b.h

Sorted(initial_messages) ==
    IF Len(initial_messages) = 2 /\ ~MessageBefore(initial_messages[1], initial_messages[2])
    THEN <<initial_messages[2], initial_messages[1]>>
    ELSE initial_messages

\* mutant: the number of verifiers is not compared; a missing message or
\* response ends the run
verify_multiple_encryption_properties_two_lengths(verifiers, initial_messages, final_responses) ==
    IF Len(initial_messages) # Len(final_responses)
    THEN VerifierFailed("VerificationError", <<"ensure">>, None)
    ELSE
        LET transcript == Transcript_new(ENCRYPTION_PROOFS_LABEL)
            upd == UpdateTranscripts(initial_messages, transcript)
            c == scalar_challenge(upd.transcript, ENCRYPTION_PROOFS_CHALLENGE_LABEL)
            steps == <<"ensure">> \o upd.steps
            n == IF Len(verifiers) <= Len(initial_messages)
                 THEN Len(verifiers) ELSE Len(initial_messages)
            ver == VerifyEach(SubSeq(verifiers, 1, n), c.challenge,
                              initial_messages, final_responses)
        IN  IF ~upd.ok THEN VerifierFailed(upd.err, steps, None)
            ELSE IF ~c.ok THEN VerifierFailed(c.err, steps \o <<"scalar_challenge">>, None)
            ELSE IF ~ver.ok
            THEN VerifierFailed(ver.err, steps \o <<"scalar_challenge">> \o ver.steps,
                                c.challenge)
            ELSE IF n < Len(verifiers)
            THEN VerifierFailed("panic", steps \o <<"scalar_challenge">> \o ver.steps,
                                c.challenge)
            ELSE [ok |-> TRUE, err |-> "none",
                  steps |-> steps \o <<"scalar_challenge">> \o ver.steps,
                  challenge |-> c.challenge]

\* mutant: every pair is verified with the first verifier
verify_multiple_encryption_properties_first_verifier(verifiers, initial_messages, final_responses) ==
    IF ~(Len(initial_messages) = Len(final_responses)
         /\ Len(verifiers) = Len(final_responses))
    THEN VerifierFailed("VerificationError", <<"ensure">>, None)
    ELSE
        LET transcript == Transcript_new(ENCRYPTION_PROOFS_LABEL)
            upd == UpdateTranscripts(initial_messages, transcript)
            c == scalar_challenge(upd.transcript, ENCRYPTION_PROOFS_CHALLENGE_LABEL)
            steps == <<"ensure">> \o upd.steps
            ver == VerifyEach([i \in 1..Len(verifiers) |-> verifiers[1]], c.challenge,
                              initial_messages, final_responses)
        IN  IF ~upd.ok THEN VerifierFailed(upd.err, steps, None)
            ELSE IF ~c.ok THEN VerifierFailed(c.err, steps \o <<"scalar_challenge">>, None)
            ELSE IF ~ver.ok
            THEN VerifierFailed(ver.err, steps \o <<"scalar_challenge">> \o ver.steps,
                                c.challenge)
            ELSE [ok |-> TRUE, err |-> "none",
                  steps |-> steps \o <<"scalar_challenge">> \o ver.steps,
                  challenge |-> c.challenge]

\* mutant: the initial messages are appended to the transcript in a canonical
\* order, whatever the order they are given in
verify_multiple_encryption_properties_sorted(verifiers, initial_messages, final_responses) ==
    IF ~(Len(initial_messages) = Len(final_responses)
         /\ Len(verifiers) = Len(final_responses))
    THEN VerifierFailed("VerificationError", <<"ensure">>, None)
    ELSE
        LET transcript == Transcript_new(ENCRYPTION_PROOFS_LABEL)
            upd == UpdateTranscripts(Sorted(initial_messages), transcript)
            c == scalar_challenge(upd.transcript, ENCRYPTION_PROOFS_CHALLENGE_LABEL)
            steps == <<"ensure">> \o upd.steps
            ver == VerifyEach(verifiers, c.challenge, initial_messages, final_responses)
        IN  IF ~upd.ok THEN VerifierFailed(upd.err, steps, None)
            ELSE IF ~c.ok THEN VerifierFailed(c.err, steps \o <<"scalar_challenge">>, None)
            ELSE IF ~ver.ok
            THEN VerifierFailed(ver.err, steps \o <<"scalar_challenge">> \o ver.steps,
                                c.challenge)
            ELSE [ok |-> TRUE, err |-> "none",
                  steps |-> steps \o <<"scalar_challenge">> \o ver.steps,
                  challenge |-> c.challenge]

\* mutant: the result of verify is dropped (no `?`)
verify_multiple_encryption_properties_verify_unchecked(verifiers, initial_messages, final_responses) ==
    IF ~(Len(initial_messages) = Len(final_responses)
         /\ Len(verifiers) = Len(final_responses))
    THEN VerifierFailed("VerificationError", <<"ensure">>, None)
    ELSE
        LET transcript == Transcript_new(ENCRYPTION_PROOFS_LABEL)
            upd == UpdateTranscripts(initial_messages, transcript)
            c == scalar_challenge(upd.transcript, ENCRYPTION_PROOFS_CHALLENGE_LABEL)
            steps == <<"ensure">> \o upd.steps
        IN  IF ~upd.ok THEN VerifierFailed(upd.err, steps, None)
            ELSE IF ~c.ok THEN VerifierFailed(c.err, steps \o <<"scalar_challenge">>, None)
            ELSE [ok |-> TRUE, err |-> "none",
                  steps |-> steps \o <<"scalar_challenge">>
                                \o Steps("verify", Len(verifiers)),
                  challenge |-> c.challenge]

\* mutant: the loop calls every verifier and returns the last error
verify_multiple_encryption_properties_every_verifier(verifiers, initial_messages, final_responses) ==
    IF ~(Len(initial_messages) = Len(final_responses)
         /\ Len(verifiers) = Len(final_responses))
    THEN VerifierFailed("VerificationError", <<"ensure">>, None)
    ELSE
        LET transcript == Transcript_new(ENCRYPTION_PROOFS_LABEL)
            upd == UpdateTranscripts(initial_messages, transcript)
            c == scalar_challenge(upd.transcript, ENCRYPTION_PROOFS_CHALLENGE_LABEL)
            steps == <<"ensure">> \o upd.steps \o <<"scalar_challenge">>
                                 \o Steps("verify", Len(verifiers))
            v(i) == CorrectnessVerifier_verify(verifiers[i], c.challenge,
                                               initial_messages[i], final_responses[i])
            failing == {i \in 1..Len(verifiers) : ~v(i).ok}
            last == CHOOSE i \in failing : \A j \in failing : j <= i
        IN  IF ~upd.ok THEN VerifierFailed(upd.err, <<"ensure">> \o upd.steps, None)
            ELSE IF ~c.ok
            THEN VerifierFailed(c.err, <<"ensure">> \o upd.steps \o <<"scalar_challenge">>,
                                None)
            ELSE IF failing # {} THEN VerifierFailed(v(last).err, steps, c.challenge)
            ELSE [ok |-> TRUE, err |-> "none", steps |-> steps, challenge |-> c.challenge]

verify_multiple_encryption_properties(verifiers, initial_messages, final_responses) ==
    IF ~(Len(initial_messages) = Len(final_responses)
         /\ Len(verifiers) = Len(final_responses))
    THEN VerifierFailed("VerificationError", <<"ensure">>, None)
    ELSE
        LET transcript == Transcript_new(ENCRYPTION_PROOFS_LABEL)
            upd == UpdateTranscripts(initial_messages, transcript)
            c == scalar_challenge(upd.transcript, ENCRYPTION_PROOFS_CHALLENGE_LABEL)
            steps == <<"ensure">> \o upd.steps
            ver == VerifyEach(verifiers, c.challenge, initial_messages, final_responses)
        IN  IF ~upd.ok THEN VerifierFailed(upd.err, steps, None)
            ELSE IF ~c.ok THEN VerifierFailed(c.err, steps \o <<"scalar_challenge">>, None)
            ELSE IF ~ver.ok
            THEN VerifierFailed(ver.err, steps \o <<"scalar_challenge">> \o ver.steps,
                                c.challenge)
            ELSE [ok |-> TRUE, err |-> "none",
                  steps |-> steps \o <<"scalar_challenge">> \o ver.steps,
                  challenge |-> c.challenge]

\* mutant: the single verifier derives the challenge and calls verify itself,
\* without the checks of the batched driver
single_property_verifier_direct(verifier, initial_message, final_response) ==
    LET transcript == Transcript_new(ENCRYPTION_PROOFS_LABEL)
        appended == [transcript EXCEPT
                        !.log = @ \o <<initial_message.a, initial_message.b.g,
                                       initial_message.b.h>>]
        c == scalar_challenge(appended, ENCRYPTION_PROOFS_CHALLENGE_LABEL)
        steps == <<"ensure", "update_transcript", "scalar_challenge">>
        v == CorrectnessVerifier_verify(verifier, c.challenge, initial_message,
                                        final_response)
    IN  IF ~c.ok THEN VerifierFailed(c.err, steps, None)
        ELSE [ok |-> v.ok, err |-> v.err, steps |-> steps \o <<"verify">>,
              challenge |-> c.challenge]

single_property_verifier(verifier, initial_message, final_response) ==
    verify_multiple_encryption_properties(<<verifier>>, <<initial_message>>,
                                          <<final_response>>)

\* ------------------------------------------------------------------ sigma proofs: the state machine
\* honest prover/verifier pairs as the tests build them
\* (plain_text, rand_blind, elg_secret) of the pairs
PairInputs == {<<6, 1, 2>>, <<7, 2, 3>>, <<6, 2, 3>>}

Pairs == {create_correctness_proof_objects_helper(in[1], in[2], in[3]) : in \in PairInputs}

PairLists == {<<>>} \cup {<<p>> : p \in Pairs} \cup {<<p, q>> : p, q \in Pairs}

ProversOf(pairs) == [i \in 1..Len(pairs) |-> pairs[i].prover]
VerifiersOf(pairs) == [i \in 1..Len(pairs) |-> pairs[i].verifier]

InitProofs ==
    /\ proved = None
    /\ presented = None
    /\ verdict = None
    /\ again = None
    /\ tried = None
    /\ range_proof = None
    /\ range_verdict = None
    /\ range_cipher = None
    /\ cdd_run = None
    /\ claim_run = None
    /\ claim_verdict = None
    /\ uid_run = None
    /\ store = IdleStore
    /\ run = IdleRun
    /\ sec_account = None
    /\ chain_account = None
    /\ issued = None
    /\ asset_tx = None
    /\ justified_tx = None
    /\ jcall = None
    /\ vcall = None
    /\ deposits = 0

\* let mut rng = StdRng::from_seed(SEED); single_property_prover(prover, &mut rng)
ProveSingle ==
    \E pair \in Pairs, seed \in Seeds :
        LET res == single_property_prover(pair.prover, StdRng_from_seed(seed))
        IN  /\ proved = None
            /\ proved' = [driver |-> "single", provers |-> <<pair.prover>>,
                          verifiers |-> <<pair.verifier>>, seed |-> seed, res |-> res,
                          initial_messages |->
                              IF res.ok THEN <<res.initial_message>> ELSE <<>>,
                          final_responses |->
                              IF res.ok THEN <<res.final_response>> ELSE <<>>]
            /\ presented' = None
            /\ verdict' = None
            /\ again' = None
            /\ UNCHANGED <<tried, ivars, vvars, rvars, svars>>

\* prove_multiple_encryption_properties(&provers_vec, &mut rng)
ProveMultiple ==
    \E pairs \in PairLists, seed \in Seeds :
        LET res == prove_multiple_encryption_properties(ProversOf(pairs),
                                                        StdRng_from_seed(seed))
        IN  /\ proved = None
            /\ proved' = [driver |-> "multiple", provers |-> ProversOf(pairs),
                          verifiers |-> VerifiersOf(pairs), seed |-> seed, res |-> res,
                          initial_messages |-> res.initial_messages,
                          final_responses |-> res.final_responses]
            /\ presented' = None
            /\ verdict' = None
            /\ again' = None
            /\ UNCHANGED <<tried, ivars, vvars, rvars, svars>>

\* what reaches the verifier: the prover's output as it is, in another order,
\* with an element removed, or with a message or a response replaced
Kinds ==
    {"as_is", "reordered", "initial_message_removed", "final_response_removed",
     "verifier_removed", "initial_message_default", "initial_message_identity",
     "initial_message_other", "final_response_one", "final_response_default",
     "verifier_other_value", "two_failures"}

Swap(seq) == <<seq[2], seq[1]>>
WithoutLast(seq) == SubSeq(seq, 1, Len(seq) - 1)

Tampered(kind, i) ==
    LET vs == proved.verifiers
        ims == proved.initial_messages
        frs == proved.final_responses
        given(v, m, f) == [kind |-> kind, index |-> i, verifiers |-> v,
                           initial_messages |-> m, final_responses |-> f]
    IN  CASE kind = "as_is" -> given(vs, ims, frs)
          [] kind = "reordered" -> given(Swap(vs), Swap(ims), Swap(frs))
          [] kind = "initial_message_removed" -> given(vs, WithoutLast(ims), frs)
          [] kind = "final_response_removed" -> given(vs, ims, WithoutLast(frs))
          [] kind = "verifier_removed" -> given(WithoutLast(vs), ims, frs)
          [] kind = "initial_message_default" ->
                 given(vs, [ims EXCEPT ![i] = CorrectnessInitialMessage_default], frs)
          [] kind = "initial_message_identity" ->
                 given(vs, [ims EXCEPT ![i] = IdentityInitialMessage], frs)
          [] kind = "initial_message_other" ->
                 given(vs, [ims EXCEPT ![i].b.h = 1], frs)
          [] kind = "final_response_one" -> given(vs, ims, [frs EXCEPT ![i] = 1])
          [] kind = "final_response_default" -> given(vs, ims, [frs EXCEPT ![i] = 0])
          [] kind = "verifier_other_value" ->
                 given([vs EXCEPT ![i].value = @ + 1], ims, frs)
          [] kind = "two_failures" ->
                 given([vs EXCEPT ![i].value = @ + 1], ims, [frs EXCEPT ![3 - i] = 1])

Present ==
    /\ proved # None
    /\ proved.res.ok
    /\ \E kind \in Kinds, i \in 1..2 :
           /\ i <= Len(proved.initial_messages)
           /\ kind = "reordered" => i = 1 /\ Len(proved.initial_messages) = 2
           /\ kind = "two_failures" => Len(proved.initial_messages) = 2
           /\ kind \in {"as_is", "initial_message_removed", "final_response_removed",
                        "verifier_removed"} => i = Len(proved.initial_messages)
           /\ presented' = Tampered(kind, i)
    /\ verdict' = None
    /\ again' = None
    /\ UNCHANGED <<proved, tried, ivars, vvars, rvars, svars>>

\* the output of a batch of no provers
PresentEmpty ==
    /\ proved # None
    /\ proved.res.ok
    /\ proved.initial_messages = <<>>
    /\ presented' = [kind |-> "as_is", index |-> 0, verifiers |-> <<>>,
                     initial_messages |-> <<>>, final_responses |-> <<>>]
    /\ verdict' = None
    /\ again' = None
    /\ UNCHANGED <<proved, tried, ivars, vvars, rvars, svars>>

VerifySingle ==
    /\ presented # None
    /\ verdict = None
    /\ Len(presented.verifiers) = 1
    /\ Len(presented.initial_messages) = 1
    /\ Len(presented.final_responses) = 1
    /\ verdict' = [driver |-> "single",
                   res |-> single_property_verifier(presented.verifiers[1],
                                                    presented.initial_messages[1],
                                                    presented.final_responses[1])]
    /\ UNCHANGED <<proved, presented, again, tried, ivars, vvars, rvars, svars>>

VerifyMultiple ==
    /\ presented # None
    /\ verdict = None
    /\ verdict' = [driver |-> "multiple",
                   res |-> verify_multiple_encryption_properties(
                               presented.verifiers, presented.initial_messages,
                               presented.final_responses)]
    /\ UNCHANGED <<proved, presented, again, tried, ivars, vvars, rvars, svars>>

\* the same prover run a second time, from the same seed
ProveAgain ==
    /\ proved # None
    /\ again' = [of |-> "prover",
                 res |-> IF proved.driver = "single"
                         THEN single_property_prover(proved.provers[1],
                                                     StdRng_from_seed(proved.seed))
                         ELSE prove_multiple_encryption_properties(
                                  proved.provers, StdRng_from_seed(proved.seed))]
    /\ UNCHANGED <<proved, presented, verdict, tried, ivars, vvars, rvars, svars>>

\* the same verifier run a second time, on the same messages
VerifyAgain ==
    /\ verdict # None
    /\ again' = [of |-> "verifier",
                 res |-> IF verdict.driver = "single"
                         THEN single_property_verifier(presented.verifiers[1],
                                                       presented.initial_messages[1],
                                                       presented.final_responses[1])
                         ELSE verify_multiple_encryption_properties(
                                  presented.verifiers, presented.initial_messages,
                                  presented.final_responses)]
    /\ UNCHANGED <<proved, presented, verdict, tried, ivars, vvars, rvars, svars>>

\* ZKPChallenge::try_from(x)
TryFrom ==
    \E x \in 0..MaxScalar :
        /\ tried' = [x |-> x, res |-> ZKPChallenge_try_from(x)]
        /\ UNCHANGED <<proved, presented, verdict, again, ivars, vvars, rvars, svars>>

NextProofs ==
    \/ ProveSingle
    \/ ProveMultiple
    \/ Present
    \/ PresentEmpty
    \/ VerifySingle
    \/ VerifyMultiple
    \/ ProveAgain
    \/ VerifyAgain
    \/ TryFrom

SpecProofs == InitProofs /\ [][NextProofs]_vars

\* ================================================================== claims: sigma proof drivers
CorrectnessCheck1 == "CorrectnessFinalResponseVerificationError{check: 1}"

PresentedAs(kind) == presented # None /\ presented.kind = kind

\* C11: single_property_verifier, applied by the verifier of an honest pair
\* to the initial message and final response that single_property_prover
\* returned for the prover of the same pair, returns Ok.
C11_SingleProofVerifies ==
    (/\ verdict # None
     /\ proved.driver = "single"
     /\ verdict.driver = "single"
     /\ PresentedAs("as_is")) => verdict.res.ok /\ verdict.res.err = "none"

C11_Witness ==
    /\ verdict # None
    /\ proved.driver = "single"
    /\ verdict.driver = "single"
    /\ PresentedAs("as_is")
    /\ verdict.res.ok
    /\ verdict.res.steps = <<"ensure", "update_transcript", "scalar_challenge", "verify">>

\* C12: for any list of honest provers, verify_multiple_encryption_properties
\* with the matching verifiers in the same order returns Ok on the output of
\* prove_multiple_encryption_properties.
C12_BatchedProofVerifies ==
    (/\ verdict # None
     /\ proved.driver = "multiple"
     /\ verdict.driver = "multiple"
     /\ PresentedAs("as_is")) => verdict.res.ok /\ verdict.res.err = "none"

C12_Witness ==
    /\ verdict # None
    /\ proved.driver = "multiple"
    /\ verdict.driver = "multiple"
    /\ PresentedAs("as_is")
    /\ Len(presented.verifiers) = 2
    /\ presented.verifiers[1] # presented.verifiers[2]
    /\ verdict.res.ok

LengthsDisagree ==
    ~(/\ Len(presented.initial_messages) = Len(presented.final_responses)
      /\ Len(presented.verifiers) = Len(presented.final_responses))

\* C13: when the numbers of verifiers, initial messages and final responses
\* are not all equal, verify_multiple_encryption_properties returns
\* VerificationError, and it has then neither updated the transcript nor
\* derived a challenge nor called any verify.
C13_LengthsCheckedFirst ==
    (/\ verdict # None
     /\ verdict.driver = "multiple"
     /\ LengthsDisagree)
        => /\ ~verdict.res.ok
           /\ verdict.res.err = "VerificationError"
           /\ verdict.res.steps = <<"ensure">>
           /\ verdict.res.challenge = None

C13_Witness ==
    /\ verdict # None
    /\ verdict.driver = "multiple"
    /\ PresentedAs("initial_message_removed")
    /\ Len(presented.verifiers) = 2
    /\ LengthsDisagree
    /\ verdict.res.err = "VerificationError"
    /\ verdict.res.steps = <<"ensure">>

ContainsIdentity(initial_message) ==
    initial_message.a = 0 \/ IsIdentity(initial_message.b)

ReplacedKinds ==
    {"initial_message_default", "initial_message_other", "final_response_one",
     "final_response_default"}

\* C14: starting from an honest correctness proof, replacing an initial
\* message by a different one none of whose elements is the identity (its
\* default value included), or replacing a final response by a different
\* scalar, makes single_property_verifier and
\* verify_multiple_encryption_properties fail with
\* CorrectnessFinalResponseVerificationError{check: 1}.
C14_ReplacementFailsCheckOne ==
    (/\ verdict # None
     /\ presented.kind \in ReplacedKinds)
        => /\ ~verdict.res.ok
           /\ verdict.res.err = CorrectnessCheck1

C14_Witness ==
    /\ verdict # None
    /\ verdict.driver = "single"
    /\ PresentedAs("initial_message_default")
    /\ presented.initial_messages[1] # proved.initial_messages[1]
    /\ verdict.res.err = CorrectnessCheck1

\* C14 as stated: every replacement of the initial message, whatever the
\* message put in its place, fails with check 1 and no other error kind.
C14_Original ==
    (/\ verdict # None
     /\ presented.kind \in ReplacedKinds \cup {"initial_message_identity"})
        => /\ ~verdict.res.ok
           /\ verdict.res.err = CorrectnessCheck1

NoneOf(steps, names) == \A i \in 1..Len(steps) : steps[i] \notin names

\* the initial messages the provers of the last proof generated
GeneratedMessages ==
    GenerateInitialMessages(proved.provers, StdRng_from_seed(proved.seed),
                            Transcript_new(ENCRYPTION_PROOFS_LABEL)).initial_messages_vec

SomeIdentity(initial_messages) ==
    \E i \in 1..Len(initial_messages) : ContainsIdentity(initial_messages[i])

\* C15: an initial message containing the identity element makes both
\* drivers fail at update_transcript: the prover derives no challenge and
\* applies none, the verifier derives no challenge and calls no verify.
C15_IdentityStopsTheDrivers ==
    /\ (proved # None /\ SomeIdentity(GeneratedMessages))
           => /\ ~proved.res.ok
              /\ proved.res.challenge = None
              /\ NoneOf(proved.res.steps, {"scalar_challenge", "apply_challenge"})
    /\ (verdict # None /\ ~LengthsDisagree /\ SomeIdentity(presented.initial_messages))
           => /\ ~verdict.res.ok
              /\ verdict.res.challenge = None
              /\ NoneOf(verdict.res.steps, {"scalar_challenge", "verify"})

C15_Witness ==
    /\ verdict # None
    /\ verdict.driver = "multiple"
    /\ PresentedAs("initial_message_identity")
    /\ presented.index = 2
    /\ verdict.res.steps = <<"ensure", "update_transcript", "update_transcript">>
    /\ verdict.res.err = "VerificationError"

C15_ProverWitness ==
    /\ proved # None
    /\ SomeIdentity(GeneratedMessages)
    /\ ~proved.res.ok
    /\ proved.res.steps = <<"generate_initial_message", "update_transcript">>

Called(res, name) == \E i \in 1..Len(res.steps) : res.steps[i] = name

\* C16: ZKPChallenge::try_from(x) returns VerificationError for x = 0 and
\* otherwise a challenge whose x() is x; whenever a driver has called
\* apply_challenge or verify, the challenge it passed is non-zero.
C16_ChallengeNeverZero ==
    /\ tried # None =>
           IF tried.x = 0
           THEN ~tried.res.ok /\ tried.res.err = "VerificationError"
                /\ tried.res.challenge = None
           ELSE tried.res.ok /\ tried.res.challenge.x = tried.x
    /\ (proved # None /\ Called(proved.res, "apply_challenge"))
           => proved.res.challenge # None /\ proved.res.challenge.x # 0
    /\ (verdict # None /\ Called(verdict.res, "verify"))
           => verdict.res.challenge # None /\ verdict.res.challenge.x # 0

C16_Witness ==
    /\ tried # None
    /\ tried.x = 0
    /\ ~tried.res.ok
    /\ verdict # None
    /\ Called(proved.res, "apply_challenge")
    /\ Called(verdict.res, "verify")
    /\ verdict.res.challenge.x # 0

\* C17: when a batched proof over two distinct statements is presented
\* with its initial messages, responses and verifiers in the other order,
\* the verifier derives another challenge than the prover did and the
\* verification fails.
C17_ReorderingFails ==
    (/\ verdict # None
     /\ verdict.driver = "multiple"
     /\ PresentedAs("reordered")
     /\ proved.verifiers[1] # proved.verifiers[2])
        => /\ verdict.res.challenge # proved.res.challenge
           /\ ~verdict.res.ok

C17_Witness ==
    /\ verdict # None
    /\ verdict.driver = "multiple"
    /\ PresentedAs("reordered")
    /\ proved.verifiers[1] # proved.verifiers[2]
    /\ verdict.res.challenge # None
    /\ verdict.res.challenge # proved.res.challenge
    /\ ~verdict.res.ok

RANGE_PROOF_LABEL == "PolymathRangeProof"

U64Bytes == 1..8

\* the u64 whose k low bytes are: `top` at position k, `low` below it
U64(k, top, low) ==
    [i \in U64Bytes |-> IF i < k THEN low ELSE IF i = k THEN top ELSE 0]

\* 42; u64::from(u32::max_value()) + 3
SecretValue42 == [i \in U64Bytes |-> IF i = 1 THEN 42 ELSE 0]
LargeSecretValue == [i \in U64Bytes |-> IF i = 1 THEN 2 ELSE IF i = 5 THEN 1 ELSE 0]

SecretValues ==
    {U64(k, top, low) : k \in U64Bytes, top \in {0, 1, 255}, low \in {0, 255}}
        \cup {SecretValue42, LargeSecretValue}

RangeBlinds == 0..MaxBlind

RangeElgSecrets == {2, 3}

\* the `range` arguments tried: the four bitsizes of the primitive and others
Ranges == {0, 8, 12, 16, 32, 64, 128}

RECURSIVE Pow2(_)
Pow2(n) == IF n = 0 THEN 1 ELSE 2 * Pow2(n - 1)

\* v < 2^n, on the bytes of v
BelowPow2(v, n) ==
    \A i \in U64Bytes :
        IF 8 * i <= n THEN TRUE
        ELSE IF 8 * (i - 1) >= n THEN v[i] = 0
        ELSE v[i] < Pow2(n - 8 * (i - 1))

\* ---- the Bulletproofs primitive
ValidBitsizes == {8, 16, 32, 64}

\* the Pedersen commitment to (value, blinding): blinding.G + value.H
PedersenCommit(value, blinding) == [g |-> blinding, h |-> value]

\* Scalar::from(u64): the 32 bytes of the scalar, least significant first
Scalar_from(value) == [i \in 1..32 |-> IF i \in U64Bytes THEN value[i] ELSE 0]

\* CompressedRistretto: the encoding of a point, and its decoding
Compress(point) == [compressed |-> point]
Decompress(compressed_point) == compressed_point.compressed

\* the n low bits of v, (v >> i) & 1 for i < n, as the value they add up to
LowBits(v, n) == [i \in U64Bytes |-> IF 8 * i <= n THEN v[i] ELSE 0]

\* a proof shows that the value its n bits add up to is committed under the
\* blinding; the commitment returned is the one to the secret value itself
RangeProof_prove_single(transcript, v, v_blinding, n) ==
    IF n \notin ValidBitsizes
    THEN [ok |-> FALSE, err |-> "InvalidBitsize", proof |-> None, commitment |-> None]
    ELSE [ok |-> TRUE, err |-> "none",
          proof |-> [label |-> transcript.label, n |-> n,
                     opens |-> PedersenCommit(Scalar_from(LowBits(v, n)), v_blinding)],
          commitment |-> Compress(PedersenCommit(Scalar_from(v), v_blinding))]

RangeProof_verify_single(proof, transcript, commitment, n) ==
    IF n \notin ValidBitsizes THEN Err("InvalidBitsize")
    ELSE IF proof.label = transcript.label /\ proof.n = n
            /\ proof.opens = Decompress(commitment)
    THEN Ok
    ELSE Err("VerificationError")

\* ---- prove_within_range
\* mutant: the error of the primitive is returned as it is (no map_err)
prove_within_range_error_unmapped(secret_value, rand_blind, range) ==
    LET prover_transcript == Transcript_new(RANGE_PROOF_LABEL)
        r == RangeProof_prove_single(prover_transcript, secret_value, rand_blind, range)
    IN  IF ~r.ok
        THEN [ok |-> FALSE, err |-> r.err, source |-> r.err,
              initial_message |-> None, final_response |-> None]
        ELSE [ok |-> TRUE, err |-> "none", source |-> "none",
              initial_message |-> r.commitment, final_response |-> r.proof]

\* mutant: the commitment is blinded by a scalar of the wrapper's own
prove_within_range_own_blind(secret_value, rand_blind, range) ==
    LET prover_transcript == Transcript_new(RANGE_PROOF_LABEL)
        r == RangeProof_prove_single(prover_transcript, secret_value, 1, range)
    IN  IF ~r.ok
        THEN [ok |-> FALSE, err |-> "ProvingError", source |-> r.err,
              initial_message |-> None, final_response |-> None]
        ELSE [ok |-> TRUE, err |-> "none", source |-> "none",
              initial_message |-> r.commitment, final_response |-> r.proof]

\* mutant: the prover's transcript starts from another label
prove_within_range_encryption_label(secret_value, rand_blind, range) ==
    LET prover_transcript == Transcript_new(ENCRYPTION_PROOFS_LABEL)
        r == RangeProof_prove_single(prover_transcript, secret_value, rand_blind, range)
    IN  IF ~r.ok
        THEN [ok |-> FALSE, err |-> "ProvingError", source |-> r.err,
              initial_message |-> None, final_response |-> None]
        ELSE [ok |-> TRUE, err |-> "none", source |-> "none",
              initial_message |-> r.commitment, final_response |-> r.proof]

prove_within_range(secret_value, rand_blind, range) ==
    LET prover_transcript == Transcript_new(RANGE_PROOF_LABEL)
        r == RangeProof_prove_single(prover_transcript, secret_value, rand_blind, range)
    IN  IF ~r.ok
        THEN [ok |-> FALSE, err |-> "ProvingError", source |-> r.err,
              initial_message |-> None, final_response |-> None]
        ELSE [ok |-> TRUE, err |-> "none", source |-> "none",
              initial_message |-> r.commitment, final_response |-> r.proof]

\* ---- verify_within_range
\* mutant: the result of verify_single is not looked at
verify_within_range_unchecked(commitment, proof, range) ==
    LET verifier_transcript == Transcript_new(RANGE_PROOF_LABEL)
    IN  RangeProof_verify_single(proof, verifier_transcript, commitment, range).ok
            \in BOOLEAN

verify_within_range(commitment, proof, range) ==
    LET verifier_transcript == Transcript_new(RANGE_PROOF_LABEL)
    IN  RangeProof_verify_single(proof, verifier_transcript, commitment, range).ok

\* ---- the state machine
InitRange ==
    /\ range_proof = None
    /\ range_verdict = None
    /\ range_cipher = None
    /\ cdd_run = None
    /\ claim_run = None
    /\ claim_verdict = None
    /\ uid_run = None
    /\ proved = None
    /\ presented = None
    /\ verdict = None
    /\ again = None
    /\ tried = None
    /\ store = IdleStore
    /\ run = IdleRun
    /\ sec_account = None
    /\ chain_account = None
    /\ issued = None
    /\ asset_tx = None
    /\ justified_tx = None
    /\ jcall = None
    /\ vcall = None
    /\ deposits = 0

\* prove_within_range(secret_value, rand_blind, range)
ProveRange ==
    \E secret_value \in SecretValues, rand_blind \in RangeBlinds, range \in Ranges :
        /\ range_proof = None
        /\ range_proof' = [secret_value |-> secret_value, rand_blind |-> rand_blind,
                           range |-> range,
                           res |-> prove_within_range(secret_value, rand_blind, range)]
        /\ range_verdict' = None
        /\ range_cipher' = None
        /\ UNCHANGED <<ivars, vvars, pvars, svars>>

\* verify_within_range(initial_message, final_response, range)
VerifyRange ==
    \E range \in Ranges :
        /\ range_proof # None
        /\ range_proof.res.ok
        /\ range_verdict = None
        /\ range_verdict' = [range |-> range,
                             res |-> verify_within_range(range_proof.res.initial_message,
                                                         range_proof.res.final_response,
                                                         range)]
        /\ UNCHANGED <<range_proof, range_cipher, ivars, vvars, pvars, svars>>

\* let w = CommitmentWitness::try_from((secret_value, rand_blind));
\* elg_pub.encrypt(&w)
EncryptWitness ==
    \E elg_secret \in RangeElgSecrets :
        LET w == [value |-> Scalar_from(range_proof.secret_value),
                  blinding |-> range_proof.rand_blind]
            elg_pub == EncKeys(elg_secret).pblc
        IN  /\ range_proof # None
            /\ range_cipher = None
            /\ range_cipher' = [elg_pub |-> elg_pub, w |-> w,
                                cipher |-> Encrypt(elg_pub, w)]
            /\ UNCHANGED <<range_proof, range_verdict, ivars, vvars, pvars, svars>>

NextRange ==
    \/ ProveRange
    \/ VerifyRange
    \/ EncryptWitness

SpecRange == InitRange /\ [][NextRange]_vars

\* ================================================================== claims: range proofs
SameBitsize == range_verdict # None /\ range_verdict.range = range_proof.range

InDomain == range_proof # None /\ range_proof.range \in ValidBitsizes

\* C19: for every bitsize of the wrapper (8, 16, 32, 64), every value v with
\* 0 <= v < 2^bitsize and every blinding, prove_within_range succeeds, and
\* verify_within_range on its commitment and proof with the same bitsize
\* returns true.
C19_InRangeProofVerifies ==
    /\ (InDomain /\ BelowPow2(range_proof.secret_value, range_proof.range))
           => range_proof.res.ok
    /\ (InDomain /\ BelowPow2(range_proof.secret_value, range_proof.range) /\ SameBitsize)
           => range_verdict.res = TRUE

C19_Witness ==
    /\ InDomain
    /\ range_proof.secret_value = SecretValue42
    /\ range_proof.range = 32
    /\ BelowPow2(range_proof.secret_value, range_proof.range)
    /\ SameBitsize
    /\ range_verdict.res = TRUE

\* C20: for every value v > 2^bitsize - 1, prove_within_range either
\* returns an error or returns a commitment and a proof on which
\* verify_within_range with the same bitsize returns false.
C20_OutOfRangeNeverAccepted ==
    (range_proof # None /\ ~BelowPow2(range_proof.secret_value, range_proof.range))
        => \/ ~range_proof.res.ok
           \/ SameBitsize => range_verdict.res = FALSE

C20_Witness ==
    /\ range_proof # None
    /\ range_proof.secret_value = LargeSecretValue
    /\ range_proof.range = 32
    /\ ~BelowPow2(range_proof.secret_value, range_proof.range)
    /\ range_proof.res.ok
    /\ SameBitsize
    /\ range_verdict.res = FALSE

\* C21: the commitment returned by prove_within_range(v, r, bitsize) is the
\* compressed Y component of the ciphertext that encrypts the witness (v, r),
\* whatever the public key it is encrypted to.
C21_CommitmentIsCipherY ==
    (range_cipher # None /\ range_proof.res.ok)
        => range_proof.res.initial_message = Compress(range_cipher.cipher.y)

C21_Witness ==
    /\ range_cipher # None
    /\ range_proof.res.ok
    /\ range_proof.secret_value = SecretValue42
    /\ range_proof.rand_blind = 1
    /\ range_proof.res.initial_message = Compress(range_cipher.cipher.y)

\* what the primitive returns on the arguments of the last prove_within_range
PrimitiveResult ==
    RangeProof_prove_single(Transcript_new(RANGE_PROOF_LABEL), range_proof.secret_value,
                            range_proof.rand_blind, range_proof.range)

OutOfBitsize == ~BelowPow2(range_proof.secret_value, range_proof.range)

\* C22: prove_within_range fails exactly when the underlying primitive
\* fails, and then with ProvingError carrying the primitive's error; a secret
\* value out of the declared bitsize is no such failure: for a bitsize the
\* primitive supports, prove_within_range returns a commitment and a proof.
C22_ProvingErrorWrapsThePrimitive ==
    range_proof # None =>
        /\ range_proof.res.ok = PrimitiveResult.ok
        /\ ~PrimitiveResult.ok =>
               /\ range_proof.res.err = "ProvingError"
               /\ range_proof.res.source = PrimitiveResult.err
        /\ (OutOfBitsize /\ range_proof.range \in ValidBitsizes) => range_proof.res.ok

C22_Witness ==
    /\ range_proof # None
    /\ range_proof.range = 12
    /\ OutOfBitsize
    /\ ~PrimitiveResult.ok
    /\ range_proof.res.err = "ProvingError"
    /\ range_proof.res.source = "InvalidBitsize"

\* C22 as stated: a secret value out of the declared bitsize makes
\* prove_within_range fail with ProvingError.
C22_Original ==
    (range_proof # None /\ OutOfBitsize)
        => ~range_proof.res.ok /\ range_proof.res.err = "ProvingError"

\* ================================================================== claim prover command line tool
\* src/confidential-identity/cli/scp/src/main.rs
\* DIDs and unique ids are byte strings; they are kept as small numbers.
MaxUniqueId == 2
MaxNonce == 2

InvestorDIDs == {1, 2}
ScopeDIDs == {1, 2, 3}
UniqueIDs == 1..MaxUniqueId
Nonces == 1..MaxNonce

\* ---- the confidential_identity library
\* points are kept by their coefficients: x.G1 + y.G2 is [g1 |-> x, g2 |-> y],
\* m.H(scope_did) is [base |-> scope_did, m |-> m]
CddClaimData_new(investor_did, investor_unique_id) ==
    [investor_did |-> investor_did, investor_unique_id |-> investor_unique_id]

ScopeClaimData_new(scope_did, investor_unique_id) ==
    [scope_did |-> scope_did, investor_unique_id |-> investor_unique_id]

\* CDD_ID = investor_did.G1 + investor_unique_id.G2
compute_cdd_id(cdd_claim) ==
    [g1 |-> cdd_claim.investor_did, g2 |-> cdd_claim.investor_unique_id]

\* SCOPE_ID = investor_unique_id.H(scope_did)
compute_scope_id(scope_claim) ==
    [base |-> scope_claim.scope_did, m |-> scope_claim.investor_unique_id]

\* the secret of the proof is the unique id of one of the two claims; which
\* one is the library's choice (secret_of)
build_scope_claim_proof_data(cdd_claim, scope_claim, secret_of) ==
    [scope_did_hash |-> scope_claim.scope_did,
     investor_unique_id |-> IF secret_of = "cdd_claim"
                            THEN cdd_claim.investor_unique_id
                            ELSE scope_claim.investor_unique_id]

ProofKeyPair_from(d) == [base |-> d.scope_did_hash, secret |-> d.investor_unique_id]

\* cli_common::make_message: investor_did || scope_did
make_message(investor_did, scope_did) == <<investor_did, scope_did>>

\* Fiat-Shamir challenge over the message and the two commitments
IdMatchChallenge(message, a1, a2) == HashFrom(1, message \o <<a1, a2.base, a2.m>>)

\* A1 = k.G2, A2 = k.H(scope_did), z = k + x.u; to_bytes() lays the three out
generate_id_match_proof(pair, message, k) ==
    LET a1 == k
        a2 == [base |-> pair.base, m |-> k]
        x == IdMatchChallenge(message, a1, a2)
    IN  <<a1, a2.base, a2.m, k + x * pair.secret>>

\* z.G2 = A1 + x.(CDD_ID - investor_did.G1) and z.H(scope_did) = A2 + x.SCOPE_ID
verify_id_match_proof(cdd_id, investor_did, scope_id, scope_did, message, proof) ==
    LET a1 == proof[1]
        a2 == [base |-> proof[2], m |-> proof[3]]
        z == proof[4]
        x == IdMatchChallenge(message, a1, a2)
    IN  /\ cdd_id.g1 - investor_did = 0
        /\ z = a1 + x * cdd_id.g2
        /\ a2.base = scope_did
        /\ scope_id.base = scope_did
        /\ z = a2.m + x * scope_id.m

\* ---- the tool
SCP_SEED == 42

\* rng.fill_bytes: the bytes drawn are a function of the generator's state
fill_bytes(rng) == [value |-> (rng % 3) + 1, rng |-> rng + 1]

random_investor_did(rng) == fill_bytes(rng)
random_scope_did(rng) == fill_bytes(rng)
random_unique_id(rng) == fill_bytes(rng)

RawCddClaimData(investor_did, investor_unique_id) ==
    [investor_did |-> investor_did, investor_unique_id |-> investor_unique_id]

RawScopeClaimData(scope_did, investor_unique_id) ==
    [scope_did |-> scope_did, investor_unique_id |-> investor_unique_id]

Panicked(message) == [ok |-> FALSE, panic |-> message]

\* the files a run writes: file name -> content
NoFiles == <<>>
Written(files, path, content) ==
    IF path = None THEN files ELSE Append(files, [path |-> path, content |-> content])

\* mutant: the unique id is drawn before the investor did
process_create_cdd_id_unique_id_first(cfg, read) ==
    IF ~cfg.rand /\ cfg.cdd_claim = None
    THEN Panicked("You must either pass in a claim file or generate it randomly.")
    ELSE IF ~cfg.rand /\ read.cdd_claim = None
    THEN Panicked("Failed to read the cdd claim from file.")
    ELSE
        LET d2 == random_unique_id(StdRng_from_seed(SCP_SEED))
            d1 == random_investor_did(d2.rng)
            raw_cdd_data == IF cfg.rand THEN RawCddClaimData(d1.value, d2.value)
                            ELSE read.cdd_claim
            files1 == IF cfg.rand THEN Written(NoFiles, cfg.cdd_claim, raw_cdd_data)
                      ELSE NoFiles
            cdd_claim == CddClaimData_new(raw_cdd_data.investor_did,
                                          raw_cdd_data.investor_unique_id)
            cdd_id == compute_cdd_id(cdd_claim)
            packaged_cdd_id == [cdd_id |-> cdd_id]
        IN  [ok |-> TRUE, panic |-> "none", raw_cdd_claim |-> raw_cdd_data,
             packaged_cdd_id |-> packaged_cdd_id,
             files |-> Written(files1, cfg.cdd_id, packaged_cdd_id)]

\* cfg: rand, cdd_claim, cdd_id (paths or None); read: the content of the
\* file cfg.cdd_claim names
process_create_cdd_id(cfg, read) ==
    IF ~cfg.rand /\ cfg.cdd_claim = None
    THEN Panicked("You must either pass in a claim file or generate it randomly.")
    ELSE IF ~cfg.rand /\ read.cdd_claim = None
    THEN Panicked("Failed to read the cdd claim from file.")
    ELSE
        LET d1 == random_investor_did(StdRng_from_seed(SCP_SEED))
            d2 == random_unique_id(d1.rng)
            raw_cdd_data == IF cfg.rand THEN RawCddClaimData(d1.value, d2.value)
                            ELSE read.cdd_claim
            files1 == IF cfg.rand THEN Written(NoFiles, cfg.cdd_claim, raw_cdd_data)
                      ELSE NoFiles
            cdd_claim == CddClaimData_new(raw_cdd_data.investor_did,
                                          raw_cdd_data.investor_unique_id)
            cdd_id == compute_cdd_id(cdd_claim)
            packaged_cdd_id == [cdd_id |-> cdd_id]
        IN  [ok |-> TRUE, panic |-> "none", raw_cdd_claim |-> raw_cdd_data,
             packaged_cdd_id |-> packaged_cdd_id,
             files |-> Written(files1, cfg.cdd_id, packaged_cdd_id)]

\* mutant: the scope claim is built with the unique id of the cdd claim
process_create_claim_proof_one_unique_id(cfg, read, secret_of, k) ==
    IF ~cfg.rand /\ (cfg.cdd_claim = None \/ cfg.scope_claim = None)
    THEN Panicked("You must either pass in a claim file or generate it randomly.")
    ELSE IF ~cfg.rand /\ read.cdd_claim = None
    THEN Panicked("Failed to read the cdd claim from file.")
    ELSE IF ~cfg.rand /\ read.scope_claim = None
    THEN Panicked("Failed to read the scope claim from file.")
    ELSE
        LET d1 == random_investor_did(StdRng_from_seed(SCP_SEED))
            d2 == random_unique_id(d1.rng)
            d3 == random_scope_did(d2.rng)
            raw_cdd_claim == IF cfg.rand THEN RawCddClaimData(d1.value, d2.value)
                             ELSE read.cdd_claim
            raw_scope_claim == IF cfg.rand THEN RawScopeClaimData(d3.value, d2.value)
                               ELSE read.scope_claim
            files1 == IF cfg.rand THEN Written(NoFiles, cfg.cdd_claim, raw_cdd_claim)
                      ELSE NoFiles
            files2 == IF cfg.rand THEN Written(files1, cfg.scope_claim, raw_scope_claim)
                      ELSE NoFiles
            message == make_message(raw_cdd_claim.investor_did, raw_scope_claim.scope_did)
            cdd_claim == CddClaimData_new(raw_cdd_claim.investor_did,
                                          raw_cdd_claim.investor_unique_id)
            scope_claim == ScopeClaimData_new(raw_scope_claim.scope_did,
                                              raw_cdd_claim.investor_unique_id)
            scope_claim_proof_data ==
                build_scope_claim_proof_data(cdd_claim, scope_claim, secret_of)
            pair == ProofKeyPair_from(scope_claim_proof_data)
            proof == generate_id_match_proof(pair, message, k)
            cdd_id == compute_cdd_id(cdd_claim)
            scope_id == compute_scope_id(scope_claim)
            packaged_proof == [cdd_id |-> cdd_id,
                               investor_did |-> raw_cdd_claim.investor_did,
                               scope_id |-> scope_id,
                               scope_did |-> raw_scope_claim.scope_did,
                               proof |-> proof]
        IN  [ok |-> TRUE, panic |-> "none", raw_cdd_claim |-> raw_cdd_claim,
             raw_scope_claim |-> raw_scope_claim, message |-> message,
             packaged_proof |-> packaged_proof,
             files |-> Written(files2, cfg.proof, packaged_proof)]

\* cfg: rand, cdd_claim, scope_claim, proof (paths or None); read: the
\* contents of the files cfg.cdd_claim and cfg.scope_claim name; secret_of and
\* k: the library's choice of secret and its nonce
process_create_claim_proof(cfg, read, secret_of, k) ==
    IF ~cfg.rand /\ (cfg.cdd_claim = None \/ cfg.scope_claim = None)
    THEN Panicked("You must either pass in a claim file or generate it randomly.")
    ELSE IF ~cfg.rand /\ read.cdd_claim = None
    THEN Panicked("Failed to read the cdd claim from file.")
    ELSE IF ~cfg.rand /\ read.scope_claim = None
    THEN Panicked("Failed to read the scope claim from file.")
    ELSE
        LET d1 == random_investor_did(StdRng_from_seed(SCP_SEED))
            d2 == random_unique_id(d1.rng)
            d3 == random_scope_did(d2.rng)
            raw_cdd_claim == IF cfg.rand THEN RawCddClaimData(d1.value, d2.value)
                             ELSE read.cdd_claim
            raw_scope_claim == IF cfg.rand THEN RawScopeClaimData(d3.value, d2.value)
                               ELSE read.scope_claim
            files1 == IF cfg.rand THEN Written(NoFiles, cfg.cdd_claim, raw_cdd_claim)
                      ELSE NoFiles
            files2 == IF cfg.rand THEN Written(files1, cfg.scope_claim, raw_scope_claim)
                      ELSE NoFiles
            message == make_message(raw_cdd_claim.investor_did, raw_scope_claim.scope_did)
            cdd_claim == CddClaimData_new(raw_cdd_claim.investor_did,
                                          raw_cdd_claim.investor_unique_id)
            scope_claim == ScopeClaimData_new(raw_scope_claim.scope_did,
                                              raw_scope_claim.investor_unique_id)
            scope_claim_proof_data ==
                build_scope_claim_proof_data(cdd_claim, scope_claim, secret_of)
            pair == ProofKeyPair_from(scope_claim_proof_data)
            proof == generate_id_match_proof(pair, message, k)
            cdd_id == compute_cdd_id(cdd_claim)
            scope_id == compute_scope_id(scope_claim)
            packaged_proof == [cdd_id |-> cdd_id,
                               investor_did |-> raw_cdd_claim.investor_did,
                               scope_id |-> scope_id,
                               scope_did |-> raw_scope_claim.scope_did,
                               proof |-> proof]
        IN  [ok |-> TRUE, panic |-> "none", raw_cdd_claim |-> raw_cdd_claim,
             raw_scope_claim |-> raw_scope_claim, message |-> message,
             packaged_proof |-> packaged_proof,
             files |-> Written(files2, cfg.proof, packaged_proof)]

\* ---- create-mocked-investor-uid
\* strings are sequences of characters
HexChars == <<"0", "1", "2", "3", "4", "5", "6", "7", "8", "9", "a", "b", "c", "d", "e", "f">>
UpperHexChars == <<"0", "1", "2", "3", "4", "5", "6", "7", "8", "9", "A", "B", "C", "D", "E", "F">>

\* the value of a hex digit of either case, -1 for any other character
HexValue(c) ==
    IF \E n \in 1..16 : HexChars[n] = c
    THEN (CHOOSE n \in 1..16 : HexChars[n] = c) - 1
    ELSE IF \E n \in 1..16 : UpperHexChars[n] = c
    THEN (CHOOSE n \in 1..16 : UpperHexChars[n] = c) - 1
    ELSE -1

\* hex::encode: two lower-case digits per byte, high digit first
hex_encode(bytes) ==
    [i \in 1..(2 * Len(bytes)) |->
        IF i % 2 = 1 THEN HexChars[(bytes[(i + 1) \div 2] \div 16) + 1]
        ELSE HexChars[(bytes[i \div 2] % 16) + 1]]

\* hex::decode: fails on an odd length and on a character that is no hex digit
hex_decode(str) ==
    IF Len(str) % 2 = 1 \/ \E i \in 1..Len(str) : HexValue(str[i]) = -1
    THEN [ok |-> FALSE, bytes |-> <<>>]
    ELSE [ok |-> TRUE,
          bytes |-> [i \in 1..(Len(str) \div 2) |->
                        16 * HexValue(str[2 * i - 1]) + HexValue(str[2 * i])]]

\* cfg.did.strip_prefix("0x").unwrap_or(&cfg.did)
strip_prefix_0x(str) ==
    IF Len(str) >= 2 /\ str[1] = "0" /\ str[2] = "x"
    THEN SubSeq(str, 3, Len(str))
    ELSE str

IsNoDash(c) == c # "-"

\* did.chars().filter(|c| *c != '-').collect::<String>()
filter_dashes(str) == SelectSeq(str, IsNoDash)

\* mocked::make_investor_uid: a 16-byte digest of the DID bytes, with the
\* version and variant bits of a UUID v4
make_investor_uid(raw_did) ==
    [i \in 1..16 |->
        LET digest == (raw_did[i] + 7 * raw_did[i + 16] + 13 * i) % 256
        IN  IF i = 7 THEN (digest % 16) + 64
            ELSE IF i = 9 THEN (digest % 64) + 128
            ELSE digest]

\* mutant: the fourth group is taken two bytes too long
process_create_mocked_investor_uid_long_group(cfg) ==
    LET did == filter_dashes(strip_prefix_0x(cfg.did))
        raw_did == hex_decode(did)
        investor_uid == make_investor_uid(raw_did.bytes)
    IN  IF ~raw_did.ok THEN Panicked("Invalid input DID, please use hex format")
        ELSE IF Len(raw_did.bytes) # 32
        THEN Panicked("Invalid input DID, len should be 64 hex characters")
        ELSE [ok |-> TRUE, panic |-> "none", raw_did |-> raw_did.bytes,
              investor_uid |-> investor_uid,
              printed |->
                  IF cfg.formatted
                  THEN hex_encode(SubSeq(investor_uid, 1, 4)) \o <<"-">>
                           \o hex_encode(SubSeq(investor_uid, 5, 6)) \o <<"-">>
                           \o hex_encode(SubSeq(investor_uid, 7, 8)) \o <<"-">>
                           \o hex_encode(SubSeq(investor_uid, 9, 12)) \o <<"-">>
                           \o hex_encode(SubSeq(investor_uid, 11, 16))
                  ELSE hex_encode(investor_uid)]

process_create_mocked_investor_uid(cfg) ==
    LET did == filter_dashes(strip_prefix_0x(cfg.did))
        raw_did == hex_decode(did)
        investor_uid == make_investor_uid(raw_did.bytes)
    IN  IF ~raw_did.ok THEN Panicked("Invalid input DID, please use hex format")
        ELSE IF Len(raw_did.bytes) # 32
        THEN Panicked("Invalid input DID, len should be 64 hex characters")
        ELSE [ok |-> TRUE, panic |-> "none", raw_did |-> raw_did.bytes,
              investor_uid |-> investor_uid,
              printed |->
                  IF cfg.formatted
                  THEN hex_encode(SubSeq(investor_uid, 1, 4)) \o <<"-">>
                           \o hex_encode(SubSeq(investor_uid, 5, 6)) \o <<"-">>
                           \o hex_encode(SubSeq(investor_uid, 7, 8)) \o <<"-">>
                           \o hex_encode(SubSeq(investor_uid, 9, 10)) \o <<"-">>
                           \o hex_encode(SubSeq(investor_uid, 11, 16))
                  ELSE hex_encode(investor_uid)]

\* ---- the state machine
\* claim files as they may be found on disk
RawCddClaims ==
    {RawCddClaimData(d, u) : d \in InvestorDIDs, u \in UniqueIDs} \cup {None}
RawScopeClaims ==
    {RawScopeClaimData(d, u) : d \in ScopeDIDs, u \in UniqueIDs} \cup {None}

PathBuf(name) == [path |-> name]
CddClaimPaths == {None, PathBuf("cdd_claim.json")}
ScopeClaimPaths == {None, PathBuf("scope_claim.json")}

\* the DIDs given on the command line: "0x06" followed by 62 zeros and a DID
\* of mixed bytes, each written in several ways, and strings that are no DID
Did06 == [i \in 1..32 |-> IF i = 1 THEN 6 ELSE 0]
DidMixed == [i \in 1..32 |-> (37 * i + 11) % 256]

UpperCase(str) == [i \in 1..Len(str) |-> UpperHexChars[HexValue(str[i]) + 1]]
Dashed(str) ==
    SubSeq(str, 1, 8) \o <<"-">> \o SubSeq(str, 9, 12) \o <<"-">>
        \o SubSeq(str, 13, Len(str)) \o <<"-">>

Spellings(bytes) ==
    LET h == hex_encode(bytes)
    IN  {h, <<"0", "x">> \o h, Dashed(h), <<"0", "x">> \o Dashed(h), UpperCase(h),
         <<"-", "0", "x">> \o h, <<"0", "X">> \o h, SubSeq(h, 1, 62), SubSeq(h, 1, 63),
         h \o <<"0", "0">>}

DidStrings == Spellings(Did06) \cup Spellings(DidMixed) \cup {<<>>}

InitScp ==
    /\ cdd_run = None
    /\ claim_run = None
    /\ claim_verdict = None
    /\ uid_run = <<>>
    /\ range_proof = None
    /\ range_verdict = None
    /\ range_cipher = None
    /\ proved = None
    /\ presented = None
    /\ verdict = None
    /\ again = None
    /\ tried = None
    /\ store = IdleStore
    /\ run = IdleRun
    /\ sec_account = None
    /\ chain_account = None
    /\ issued = None
    /\ asset_tx = None
    /\ justified_tx = None
    /\ jcall = None
    /\ vcall = None
    /\ deposits = 0

\* polymath-scp create-cdd-id
CreateCDDId ==
    \E rand \in BOOLEAN, cdd_claim \in CddClaimPaths, cdd_id \in {None, PathBuf("cdd_id.json")},
       read_cdd \in RawCddClaims :
        LET cfg == [rand |-> rand, cdd_claim |-> cdd_claim, cdd_id |-> cdd_id]
            read == [cdd_claim |-> read_cdd]
        IN  /\ cdd_run = None
            /\ claim_run = None
            /\ uid_run = <<>>
            /\ cdd_claim = None => read_cdd = None
            /\ rand => read_cdd = None
            /\ cdd_run' = [cfg |-> cfg, read |-> read,
                           res |-> process_create_cdd_id(cfg, read)]
            /\ UNCHANGED <<claim_run, claim_verdict, uid_run, ivars, vvars, pvars, rvars>>

\* polymath-scp create-claim-proof
CreateClaimProof ==
    \E rand \in BOOLEAN, cdd_claim \in CddClaimPaths, scope_claim \in ScopeClaimPaths,
       read_cdd \in RawCddClaims, read_scope \in RawScopeClaims,
       secret_of \in {"cdd_claim", "scope_claim"}, k \in Nonces :
        LET cfg == [rand |-> rand, cdd_claim |-> cdd_claim, scope_claim |-> scope_claim,
                    proof |-> PathBuf("proof.json")]
            read == [cdd_claim |-> read_cdd, scope_claim |-> read_scope]
        IN  /\ claim_run = None
            /\ uid_run = <<>>
            /\ cdd_claim = None => read_cdd = None
            /\ scope_claim = None => read_scope = None
            /\ rand => read_cdd = None /\ read_scope = None
            /\ claim_run' = [cfg |-> cfg, read |-> read,
                             res |-> process_create_claim_proof(cfg, read, secret_of, k)]
            /\ claim_verdict' = None
            /\ UNCHANGED <<cdd_run, uid_run, ivars, vvars, pvars, rvars>>

\* anyone verifies the published {cdd_id, investor_did, scope_id, scope_did, proof}
VerifyClaimProof ==
    /\ claim_run # None
    /\ claim_run.res.ok
    /\ claim_verdict = None
    /\ LET p == claim_run.res.packaged_proof
       IN  claim_verdict' =
               [ok |-> verify_id_match_proof(p.cdd_id, p.investor_did, p.scope_id,
                                             p.scope_did,
                                             make_message(p.investor_did, p.scope_did),
                                             p.proof)]
    /\ UNCHANGED <<cdd_run, claim_run, uid_run, ivars, vvars, pvars, rvars>>

\* polymath-scp create-mocked-investor-uid, run at most twice
CreateMockedInvestorUid ==
    \E did \in DidStrings, formatted \in BOOLEAN :
        LET cfg == [did |-> did, formatted |-> formatted]
        IN  /\ cdd_run = None
            /\ claim_run = None
            /\ Len(uid_run) < 2
            /\ uid_run' = Append(uid_run,
                                 [cfg |-> cfg,
                                  res |-> process_create_mocked_investor_uid(cfg)])
            /\ UNCHANGED <<cdd_run, claim_run, claim_verdict, ivars, vvars, pvars, rvars>>

NextScp ==
    \/ CreateCDDId
    \/ CreateClaimProof
    \/ VerifyClaimProof
    \/ CreateMockedInvestorUid

SpecScp == InitScp /\ [][NextScp]_vars

\* ================================================================== claims: claim prover tool
SameUniqueId ==
    claim_run.res.raw_cdd_claim.investor_unique_id
        = claim_run.res.raw_scope_claim.investor_unique_id

\* C23: when the cdd claim and the scope claim carry the same
\* investor_unique_id, the proof that create-claim-proof publishes verifies
\* against the published cdd_id and scope_id under the message made of
\* investor_did and scope_did; when the two unique ids differ, the
\* verification of the published proof fails.
C23_ProofVerifiesIffSameUniqueId ==
    claim_verdict # None => (claim_verdict.ok <=> SameUniqueId)

C23_Witness ==
    /\ claim_verdict # None
    /\ ~claim_run.cfg.rand
    /\ SameUniqueId
    /\ claim_run.res.raw_cdd_claim.investor_did = 2
    /\ claim_run.res.raw_scope_claim.scope_did = 3
    /\ claim_verdict.ok

C23_WitnessMismatch ==
    /\ claim_verdict # None
    /\ ~claim_run.cfg.rand
    /\ ~SameUniqueId
    /\ ~claim_verdict.ok

UidRuns == {i \in 1..Len(uid_run) : uid_run[i].res.ok}

DashPositions(str) == {i \in 1..Len(str) : str[i] = "-"}

\* C24: the mocked investor uid of a 32-byte DID has 16 bytes and is the
\* same for every spelling of the same DID bytes (with or without the 0x
\* prefix, with or without dashes); the formatted output has its dashes
\* after 8, 4, 4 and 4 characters and 12 characters after the last, and
\* without its dashes it is the unformatted output, the hex of the 16 bytes
\* in order.
C24_MockedUidPrinted ==
    \A i \in UidRuns :
        LET r == uid_run[i].res
        IN  /\ Len(r.raw_did) = 32
            /\ Len(r.investor_uid) = 16
            /\ filter_dashes(r.printed) = hex_encode(r.investor_uid)
            /\ uid_run[i].cfg.formatted =>
                   /\ Len(r.printed) = 36
                   /\ DashPositions(r.printed) = {9, 14, 19, 24}
            /\ ~uid_run[i].cfg.formatted => DashPositions(r.printed) = {}
            /\ \A j \in UidRuns :
                   uid_run[j].res.raw_did = r.raw_did
                       => /\ uid_run[j].res.investor_uid = r.investor_uid
                          /\ filter_dashes(uid_run[j].res.printed) = filter_dashes(r.printed)

C24_Witness ==
    /\ UidRuns = {1, 2}
    /\ uid_run[1].cfg.did # uid_run[2].cfg.did
    /\ uid_run[1].cfg.did[2] = "x"
    /\ DashPositions(uid_run[2].cfg.did) # {}
    /\ uid_run[1].res.raw_did = DidMixed
    /\ uid_run[2].res.raw_did = DidMixed
    /\ uid_run[1].cfg.formatted
    /\ ~uid_run[2].cfg.formatted
    /\ filter_dashes(uid_run[1].res.printed) = uid_run[2].res.printed

\* ================================================================== claims: one challenge for the batch
\* the challenge of a fresh transcript to which the messages are appended in
\* the order of the list
ChallengeOf(initial_messages) ==
    scalar_challenge(UpdateTranscripts(initial_messages,
                                       Transcript_new(ENCRYPTION_PROOFS_LABEL)).transcript,
                     ENCRYPTION_PROOFS_CHALLENGE_LABEL).challenge

\* the provers of the last proof as they are after generate_initial_message
GeneratedProvers ==
    GenerateInitialMessages(proved.provers, StdRng_from_seed(proved.seed),
                            Transcript_new(ENCRYPTION_PROOFS_LABEL)).provers_vec

BatchProved == proved # None /\ proved.driver = "multiple" /\ proved.res.ok

BatchVerified ==
    verdict # None /\ verdict.driver = "multiple" /\ Called(verdict.res, "verify")

\* C25: the batched proof uses one single challenge.
\* prove_multiple_encryption_properties generates all the initial messages
\* first, appends them to one transcript in list order, derives the challenge
\* once, after the last append, and every final response is the answer of its
\* prover to that challenge; verify_multiple_encryption_properties appends
\* the messages it is given in the same order, derives the challenge once and
\* then calls the verifiers, so that on the prover's messages it passes the
\* prover's challenge.
C25_OneChallengeForTheBatch ==
    /\ BatchProved =>
           LET n == Len(proved.provers)
           IN  /\ proved.res.steps = Steps("generate_initial_message", n)
                                         \o Steps("update_transcript", n)
                                         \o <<"scalar_challenge">>
                                         \o Steps("apply_challenge", n)
               /\ proved.res.initial_messages = GeneratedMessages
               /\ proved.res.challenge = ChallengeOf(proved.res.initial_messages)
               /\ \A i \in 1..n :
                      proved.res.final_responses[i]
                          = apply_challenge(GeneratedProvers[i], proved.res.challenge)
    /\ BatchVerified =>
           LET n == Len(presented.initial_messages)
               head == <<"ensure">> \o Steps("update_transcript", n)
                                    \o <<"scalar_challenge">>
           IN  /\ IsPrefix(head, verdict.res.steps)
               /\ \A i \in (Len(head) + 1)..Len(verdict.res.steps) :
                      verdict.res.steps[i] = "verify"
               /\ verdict.res.challenge = ChallengeOf(presented.initial_messages)
               /\ PresentedAs("as_is") => verdict.res.challenge = proved.res.challenge

C25_Witness ==
    /\ BatchProved
    /\ BatchVerified
    /\ PresentedAs("as_is")
    /\ Len(proved.provers) = 2
    /\ proved.provers[1] # proved.provers[2]
    /\ proved.res.initial_messages[1] # proved.res.initial_messages[2]
    /\ verdict.res.ok
    /\ verdict.res.challenge = proved.res.challenge
    /\ verdict.res.challenge # ChallengeOf(SubSeq(presented.initial_messages, 1, 1))

\* ================================================================== the first failure ends a verification
\* the batched verifier and the checks of an issued transaction side by side:
\* either a batch of sigma proofs is proved, presented and verified, or a
\* transaction is initialized, possibly changed, and handed to the mediator
ProveBatch == issued = None /\ ProveMultiple

InitializeTx == proved = None /\ Initialize

NextFirstFailure ==
    \/ ProveBatch
    \/ Present
    \/ VerifyMultiple
    \/ InitializeTx
    \/ Craft
    \/ TamperInitialized
    \/ Justify

SpecFirstFailure == InitIssuance /\ [][NextFirstFailure]_vars

\* the result of verifier i of the presented batch, under the challenge of the run
VerifierResult(i) ==
    CorrectnessVerifier_verify(presented.verifiers[i], verdict.res.challenge,
                               presented.initial_messages[i],
                               presented.final_responses[i])

FailingVerifiers == {i \in 1..Len(presented.verifiers) : ~VerifierResult(i).ok}

Lowest(indices) == CHOOSE i \in indices : \A j \in indices : i <= j

VerifyCalls(res) == Cardinality({i \in 1..Len(res.steps) : res.steps[i] = "verify"})

InitVerifyOrder ==
    <<"issuer_sig", "asset_id_equal_cipher_proof", "balance_wellformedness_proof">>

\* the checks of asset_issuance_init_verify that fail on the transaction
\* handed to the mediator, by their position in the function
FailingInitChecks ==
    {k \in 1..3 :
        \/ k = 1 /\ ~IssuerSigValid(jcall.tx, jcall.account)
        \/ k = 2 /\ ~AssetIdProofValid(jcall.tx, jcall.account, jcall.mdtr)
        \/ k = 3 /\ ~WellformednessProofValid(jcall.tx, jcall.account)}

InitCheckError(k) ==
    CASE k = 1 -> "SignatureValidationFailure"
      [] k = 2 -> "EncryptingSameValueFinalResponseVerificationError"
      [] k = 3 -> "WellformednessFinalResponseVerificationError"

\* C26: verification stops at the first failure.
\* verify_multiple_encryption_properties calls the verifiers in index order,
\* returns the error of the failing verifier of lowest index and calls no
\* verifier after it; asset_issuance_init_verify stops at the first failing
\* check among the signature, the same asset id proof and the
\* well-formedness proof, and returns that check's error.
C26_FirstFailureEndsVerification ==
    /\ BatchVerified =>
           IF FailingVerifiers = {}
           THEN /\ verdict.res.ok
                /\ VerifyCalls(verdict.res) = Len(presented.verifiers)
           ELSE /\ ~verdict.res.ok
                /\ verdict.res.err = VerifierResult(Lowest(FailingVerifiers)).err
                /\ VerifyCalls(verdict.res) = Lowest(FailingVerifiers)
    /\ (JustifyCalled /\ FailingInitChecks # {}) =>
           /\ ~jcall.res.ok
           /\ jcall.res.err = InitCheckError(Lowest(FailingInitChecks))
           /\ jcall.res.checks = SubSeq(InitVerifyOrder, 1, Lowest(FailingInitChecks))

\* the first verifier fails check 2 and the second one, which would fail
\* check 1, is not called
C26_Witness ==
    /\ BatchVerified
    /\ PresentedAs("two_failures")
    /\ FailingVerifiers = {1, 2}
    /\ VerifierResult(1).err # VerifierResult(2).err
    /\ verdict.res.err = "CorrectnessFinalResponseVerificationError{check: 2}"
    /\ VerifyCalls(verdict.res) = 1

\* the asset id proof and the well-formedness proof both fail under a valid
\* signature: the well-formedness proof is not looked at
C26_WitnessInitVerify ==
    /\ JustifyCalled
    /\ FailingInitChecks = {2, 3}
    /\ jcall.res.err = "EncryptingSameValueFinalResponseVerificationError"
    /\ jcall.res.checks = <<"issuer_sig", "asset_id_equal_cipher_proof">>

\* ================================================================== claims: the single drivers
SingleProved == proved # None /\ proved.driver = "single"

SingleVerified == verdict # None /\ verdict.driver = "single"

\* the batched prover on the list of the one prover of the last single proof
BatchOfOne ==
    prove_multiple_encryption_properties(<<proved.provers[1]>>,
                                         StdRng_from_seed(proved.seed))

\* the batched verifier on the one-element slices of the last single verification
VerifyBatchOfOne ==
    verify_multiple_encryption_properties(<<presented.verifiers[1]>>,
                                          <<presented.initial_messages[1]>>,
                                          <<presented.final_responses[1]>>)

\* C27: the single drivers are the batched drivers on lists of one.
\* single_property_prover returns the only initial message and the only
\* final response of prove_multiple_encryption_properties on the list of its
\* prover, or its error; single_property_verifier returns the result of
\* verify_multiple_encryption_properties on the slices of its one verifier,
\* one initial message and one final response, whatever these are.
C27_SingleIsBatchOfOne ==
    /\ SingleProved =>
           /\ proved.res.ok = BatchOfOne.ok
           /\ proved.res.err = BatchOfOne.err
           /\ proved.res.rng = BatchOfOne.rng
           /\ proved.res.ok =>
                  /\ BatchOfOne.initial_messages = <<proved.res.initial_message>>
                  /\ BatchOfOne.final_responses = <<proved.res.final_response>>
    /\ SingleVerified =>
           /\ verdict.res.ok = VerifyBatchOfOne.ok
           /\ verdict.res.err = VerifyBatchOfOne.err
           /\ verdict.res.steps = VerifyBatchOfOne.steps

\* a single verification that the batched driver ends before any verify
C27_Witness ==
    /\ SingleProved
    /\ proved.res.ok
    /\ SingleVerified
    /\ PresentedAs("initial_message_identity")
    /\ verdict.res.err = "VerificationError"
    /\ verdict.res.steps = <<"ensure", "update_transcript">>

\* a single verification that ends in the verifier's own error
C27_WitnessVerifierError ==
    /\ SingleVerified
    /\ PresentedAs("verifier_other_value")
    /\ verdict.res.err = "CorrectnessFinalResponseVerificationError{check: 2}"
    /\ verdict.res = VerifyBatchOfOne

\* ================================================================== claims: transcript RNGs
\* the transcript RNG prover i creates: the transcript is the fresh one, the
\* external RNG is where the provers before it left it
TranscriptRngOf(i) ==
    create_transcript_rng(proved.provers[i], StdRng_from_seed(proved.seed) + (i - 1),
                          Transcript_new(ENCRYPTION_PROOFS_LABEL))

MultipleProved == proved # None /\ proved.driver = "multiple"

\* C28: no transcript RNG is shared.
\* prove_multiple_encryption_properties creates one transcript RNG per
\* prover, through that prover's create_transcript_rng on the transcript to
\* which nothing is appended yet, and uses it for that prover's
\* generate_initial_message only: the external RNG has been drawn from once
\* per prover, every initial message is the one its prover generates from
\* its own transcript RNG, no two provers of a batch have used the same
\* randomness, and every generate_initial_message precedes every
\* update_transcript.
C28_OneTranscriptRngPerProver ==
    MultipleProved =>
        LET n == Len(proved.provers)
        IN  /\ proved.res.rng = StdRng_from_seed(proved.seed) + n
            /\ IsPrefix(Steps("generate_initial_message", n), proved.res.steps)
            /\ \A i \in (n + 1)..Len(proved.res.steps) :
                   proved.res.steps[i] # "generate_initial_message"
            /\ \A i \in 1..n :
                   GeneratedMessages[i] =
                       generate_initial_message(
                           proved.provers[i],
                           TranscriptRngOf(i).transcript_rng).initial_message
            /\ \A i, j \in 1..n :
                   i # j => GeneratedProvers[i].u # GeneratedProvers[j].u
            /\ proved.res.ok => proved.res.initial_messages = GeneratedMessages

\* the same prover twice in one batch: its two initial messages differ
C28_Witness ==
    /\ MultipleProved
    /\ proved.res.ok
    /\ Len(proved.provers) = 2
    /\ proved.provers[1] = proved.provers[2]
    /\ proved.res.initial_messages[1] # proved.res.initial_messages[2]
    /\ proved.res.rng = StdRng_from_seed(proved.seed) + 2

\* ================================================================== claims: what an issuance changes
Processed == VerifyCalled /\ vcall.res.ok

\* C29: processing an issuance changes only the balance.
\* The account verify_asset_transaction returns has the id, the enc_asset_id,
\* the memo with the owner's keys, the three account proofs and the initial
\* signature of the account passed in; its enc_balance is the sum of the
\* old one and the memo of the transaction.
C29_OnlyBalanceChanges ==
    Processed =>
        LET old == vcall.account
            new == vcall.res.out
        IN  /\ new.initial_sig = old.initial_sig
            /\ new.content.id = old.content.id
            /\ new.content.enc_asset_id = old.content.enc_asset_id
            /\ new.content.memo = old.content.memo
            /\ new.content.asset_wellformedness_proof
                   = old.content.asset_wellformedness_proof
            /\ new.content.asset_membership_proof = old.content.asset_membership_proof
            /\ new.content.initial_balance_correctness_proof
                   = old.content.initial_balance_correctness_proof
            /\ DOMAIN new = DOMAIN old
            /\ DOMAIN new.content = DOMAIN old.content
            /\ new.content.enc_balance
                   = CipherAdd(old.content.enc_balance, vcall.jtx.content.content.memo)

\* a second issuance, whose transaction names another account id than the
\* account has: the balance has changed and the id has not
C29_Witness ==
    /\ Processed
    /\ deposits = 2
    /\ vcall.res.out.content.enc_balance # vcall.account.content.enc_balance
    /\ vcall.account.content.enc_balance # ZeroCipher
    /\ vcall.jtx.content.content.account_id # vcall.account.content.id
    /\ vcall.res.out.content.id = vcall.account.content.id

\* ================================================================== claims: the amount the mediator sees
\* what the mediator of the call reads in enc_amount
MediatorAmount == Decrypt(MediatorEncKeys(jcall.mdtr).scrt, jcall.tx.content.enc_amount)

\* what the memo credits to the issuer
MemoAmount == Decrypt(sec_account.enc_keys.scrt, jcall.tx.content.memo)

AmountsDisagree ==
    \/ ~MediatorAmount.ok
    \/ ~MemoAmount.ok
    \/ MediatorAmount.val # MemoAmount.val

OtherChecksValid ==
    /\ IssuerSigValid(jcall.tx, jcall.account)
    /\ AssetIdProofValid(jcall.tx, jcall.account, jcall.mdtr)
    /\ WellformednessProofValid(jcall.tx, jcall.account)

\* C30: the mediator binds the amount encrypted to it to the amount credited
\* to the issuer. When enc_amount cannot be decrypted with the mediator's key,
\* or decrypts to another value than the memo encrypts,
\* justify_asset_transaction fails and returns no JustifiedAssetTx; when the
\* signature and the other two proofs are valid, the error is that of the
\* decryption or of the correctness proof.
C30_MediatorBindsTheAmount ==
    (JustifyCalled /\ AmountsDisagree) =>
        /\ ~jcall.res.ok
        /\ jcall.res.out = None
        /\ justified_tx = None
        /\ "mediator_sign" \notin ChecksOf(jcall.res)
        /\ OtherChecksValid =>
               IF MediatorAmount.ok
               THEN jcall.res.err = "CorrectnessFinalResponseVerificationError"
               ELSE jcall.res.err = MediatorAmount.err

\* enc_amount holds another value than the memo, everything else is valid
C30_Witness ==
    /\ JustifyCalled
    /\ OtherChecksValid
    /\ MediatorAmount.ok
    /\ MemoAmount.ok
    /\ MediatorAmount.val # MemoAmount.val
    /\ jcall.tx.content.balance_correctness_proof.value = MemoAmount.val
    /\ ~jcall.res.ok
    /\ jcall.res.out = None

\* enc_amount cannot be decrypted by the mediator, everything else is valid
C30_WitnessUndecryptable ==
    /\ JustifyCalled
    /\ OtherChecksValid
    /\ ~MediatorAmount.ok
    /\ jcall.res.checks = <<"issuer_sig", "asset_id_equal_cipher_proof",
                             "balance_wellformedness_proof", "decrypt_enc_amount">>
    /\ jcall.res.out = None

\* ================================================================== claims: what the mediator signs
Justified == JustifyCalled /\ jcall.res.ok

\* the byte string verify_asset_transaction checks the mediator's signature against
VerifiedMessage(jtx) == EncodeInitializedAssetTx(jtx.content)

\* C31: justification does not alter the transaction.
\* The content of the JustifiedAssetTx justify_asset_transaction returns is
\* the InitializedAssetTx it received, content and issuer signature; the
\* mediator's signature is over the encoding of that whole InitializedAssetTx,
\* the same string verify_asset_transaction checks the mediator's signature
\* against, so that the validator with that mediator's key passes the
\* signature check on the untouched result.
C31_JustificationKeepsTheTransaction ==
    /\ Justified =>
           /\ jcall.res.out.content = jcall.tx
           /\ jcall.res.out.content.content = jcall.tx.content
           /\ jcall.res.out.content.sig = jcall.tx.sig
           /\ jcall.res.out.sig.signer = MediatorSignKeys(jcall.mdtr).public
           /\ jcall.res.out.sig.msg = EncodeContent(jcall.tx.content) \o <<jcall.tx.sig>>
           /\ jcall.res.out.sig.msg = VerifiedMessage(jcall.res.out)
    /\ (Justified /\ VerifyCalled /\ vcall.jtx = jcall.res.out /\ vcall.mdtr = jcall.mdtr)
           => vcall.res.checks # <<"mediator_sig">>
    /\ VerifyCalled =>
           (vcall.res.checks = <<"mediator_sig">>
                <=> ~SigVerify(MediatorSignKeys(vcall.mdtr).public,
                               VerifiedMessage(vcall.jtx), vcall.jtx.sig))

\* the untouched result of a justification has passed the validator's
\* check of the mediator's signature
C31_Witness ==
    /\ Justified
    /\ VerifyCalled
    /\ vcall.jtx = jcall.res.out
    /\ vcall.mdtr = jcall.mdtr
    /\ vcall.jtx.content = jcall.tx
    /\ Len(vcall.jtx.sig.msg) = 8
    /\ vcall.res.ok

\* ================================================================== claims: what the issuer sends
Initialized == issued # None

\* the witness of the memo of the transaction initialize returned
MemoWitness == [value |-> issued.amount, blinding |-> issued.tx.content.memo.y.g]

\* C32: in every transaction initialize_asset_transaction returns,
\* enc_asset_id is the encryption to the mediator's key of the witness, value
\* and blinding, of the issuer's secret account; enc_amount and memo encrypt
\* the requested amount, to the mediator's key and to the issuer's key; the
\* asset id proof is over the same witness and the two keys; the
\* well-formedness and correctness proofs are built from the memo's own
\* witness; sig is the issuer's signature over the encoding of that content.
C32_InitializedTransaction ==
    Initialized =>
        LET content == issued.tx.content
            mdtr == MediatorEncKeys(issued.mdtr)
            issr == sec_account.enc_keys
        IN  /\ content.account_id = issued.account_id
            /\ content.enc_asset_id = Encrypt(mdtr.pblc, sec_account.asset_id_witness)
            /\ Decrypt(mdtr.scrt, content.enc_amount).ok
            /\ Decrypt(mdtr.scrt, content.enc_amount).val = issued.amount
            /\ content.memo = Encrypt(issr.pblc, MemoWitness)
            /\ Decrypt(issr.scrt, content.memo).ok
            /\ Decrypt(issr.scrt, content.memo).val = issued.amount
            /\ content.asset_id_equal_cipher_proof =
                   EncryptingSameValueProve(issr.pblc, mdtr.pblc,
                                            sec_account.asset_id_witness)
            /\ content.balance_wellformedness_proof =
                   WellformednessProve(issr.pblc, MemoWitness)
            /\ content.balance_correctness_proof = CorrectnessProve(issr.pblc, MemoWitness)
            /\ issued.tx.sig = Sign(sec_account.sign_keys, EncodeContent(content))
            /\ SigVerify(sec_account.sign_keys.public, EncodeContent(content),
                         issued.tx.sig)

\* a transaction of amount 2 to the second mediator, for the account id of
\* the test
C32_Witness ==
    /\ Initialized
    /\ asset_tx = issued.tx
    /\ issued.amount = 2
    /\ issued.mdtr = 2
    /\ issued.account_id = 1234
    /\ issued.tx.content.enc_amount # issued.tx.content.memo
    /\ issued.tx.content.enc_asset_id.y.h = sec_account.asset_id_witness.value

\* ================================================================== claims: processing a transaction again
\* the last verification, run again against another account
VerifyAgainst(account) ==
    verify_asset_transaction(vcall.jtx, account, MediatorEncKeys(vcall.mdtr).pblc,
                             MediatorSignKeys(vcall.mdtr).public)

\* accounts with the memo keys and the enc_asset_id of the given one, and
\* another balance, other proofs or another initial signature
SameKeysAndAsset(account) ==
    {account,
     [account EXCEPT !.content.enc_balance = CipherAdd(@, vcall.jtx.content.content.memo)],
     [account EXCEPT !.content.enc_balance = ZeroCipher],
     [account EXCEPT !.content.asset_wellformedness_proof =
                         vcall.jtx.content.content.balance_wellformedness_proof],
     [account EXCEPT !.content.initial_balance_correctness_proof =
                         vcall.jtx.content.content.balance_correctness_proof],
     [account EXCEPT !.content.asset_membership_proof = "other"],
     [account EXCEPT !.initial_sig = vcall.jtx.sig],
     [account EXCEPT !.content.id = @ + 1]}

\* C33: the outcome of verify_asset_transaction depends on the issuer's
\* public account through its memo keys and its enc_asset_id only, not
\* through its balance, its proofs or its initial signature. A justified
\* transaction accepted once is accepted again against the account that was
\* returned, and the memo is deposited once more.
C33_AcceptedAgain ==
    VerifyCalled =>
        /\ \A account \in SameKeysAndAsset(vcall.account) :
               /\ VerifyAgainst(account).ok = vcall.res.ok
               /\ VerifyAgainst(account).err = vcall.res.err
               /\ VerifyAgainst(account).checks = vcall.res.checks
        /\ vcall.res.ok =>
               /\ VerifyAgainst(vcall.res.out).ok
               /\ VerifyAgainst(vcall.res.out).out.content.enc_balance =
                      CipherAdd(CipherAdd(vcall.account.content.enc_balance,
                                          vcall.jtx.content.content.memo),
                                vcall.jtx.content.content.memo)

\* the justified transaction was processed twice: the balance is twice its memo
C33_Witness ==
    /\ Processed
    /\ JustifyCalled
    /\ vcall.jtx = jcall.res.out
    /\ deposits = 2
    /\ vcall.account.content.enc_balance = vcall.jtx.content.content.memo
    /\ chain_account.content.enc_balance =
           CipherAdd(vcall.jtx.content.content.memo, vcall.jtx.content.content.memo)

\* ================================================================== claims: the account id of a transaction
\* the transaction names another account than the one it is checked against
OtherAccountNamed(tx, account) == tx.content.account_id # account.content.id

\* C34: the account_id of the content is never compared with the id of the
\* issuer's public account. An honest transaction that names another account
\* id is justified and verified like any other, and the deposit goes to the
\* account the caller passed, whose id is kept.
C34_AccountIdNotCompared ==
    /\ (HonestJustify /\ OtherAccountNamed(jcall.tx, jcall.account))
           => /\ jcall.res.ok
              /\ jcall.res.checks = JustifyOrder
    /\ (HonestVerify /\ OtherAccountNamed(vcall.jtx.content, vcall.account))
           => /\ vcall.res.ok
              /\ vcall.res.checks = VerifyOrder
              /\ vcall.res.out = deposit(vcall.account, vcall.jtx.content.content.memo)
              /\ vcall.res.out.content.id = vcall.account.content.id
              /\ vcall.res.out.content.id # vcall.jtx.content.content.account_id
              /\ chain_account = vcall.res.out

\* the transaction of the test: account id 1234 for the account of id 1
C34_Witness ==
    /\ HonestVerify
    /\ vcall.jtx.content.content.account_id = 1234
    /\ vcall.account.content.id = 1
    /\ vcall.res.ok
    /\ chain_account.content.id = 1
    /\ chain_account.content.enc_balance # vcall.account.content.enc_balance

\* ================================================================== claims: the states the validator processes
KnownAssetStrings == {"INIT_STATE", "JUSTIFY_STATE"}
KnownConfidentialStrings == {"INIT_STATE", "FINISHED_STATE", "JUSTIFICATION_STATE"}

\* a run that was given a database directory, for the step named by a
\* string the tool does not know
UnknownStep(known) == run.cfg.db_dir /\ run.cfg.state \notin known

\* a run whose objects were all loaded and whose instruction is recorded as
\* Verified or Rejected
LoadedNotStarted == run.loaded # None /\ run.loaded.state.sub # "Started"

RefusedAsInvalid ==
    /\ ~run.ok
    /\ run.err = "InvalidInstructionError"
    /\ run.called = "none"
    /\ run.saved = None

\* C35: the validator processes an instruction only in a Started substate.
\* validate_asset_issuance and validate_transaction return
\* InvalidInstructionError when the state string is not one of the step names
\* they know, before anything is loaded, and when the instruction they loaded
\* is recorded in a Verified or Rejected substate; they ask a library
\* validator about instructions recorded as Started only.
C35_OnlyStartedIsProcessed ==
    /\ IssuanceRun =>
           /\ UnknownStep(KnownAssetStrings) => RefusedAsInvalid /\ run.loaded = None
           /\ LoadedNotStarted => RefusedAsInvalid
           /\ run.called # "none" => run.loaded.state.sub = "Started"
    /\ TransactionRun =>
           /\ UnknownStep(KnownConfidentialStrings) => RefusedAsInvalid /\ run.loaded = None
           /\ LoadedNotStarted => RefusedAsInvalid
           /\ run.called # "none" => run.loaded.state.sub = "Started"

\* a justification the mediator rejected, found in the file of a Started state
C35_Witness ==
    /\ IssuanceRun
    /\ run.loaded # None
    /\ run.loaded.state = TxState("Justification", "Rejected")
    /\ run.loaded.data.valid
    /\ run.err = "InvalidInstructionError"

\* a transfer step the tool does not know
C35_WitnessUnknownStep ==
    /\ TransactionRun
    /\ run.cfg.state = "JUSTIFY_STATE"
    /\ run.err = "InvalidInstructionError"
    /\ run.loaded = None

\* a verified transfer instruction found in the file of a Started state
C35_WitnessVerified ==
    /\ TransactionRun
    /\ run.loaded # None
    /\ run.loaded.state.sub = "Verified"
    /\ run.err = "InvalidInstructionError"

\* ================================================================== claims: a failed validation
FailedRun == run # IdleRun /\ ~run.ok

\* the file a run for a transaction reads its instruction from
RequestedFile ==
    IF run.op = "validate_asset_issuance"
    THEN Key(run.cfg.issuer,
             asset_transaction_file(run.cfg.tx_id, RequestedAssetState(run.cfg.state)))
    ELSE Key(run.cfg.sender,
             confidential_transaction_file(run.cfg.tx_id,
                                           RequestedConfidentialState(run.cfg.state)))

\* C36: a failed validation leaves the store unchanged. When
\* validate_asset_issuance, validate_transaction or validate_account fails,
\* for a missing database directory (EmptyDatabaseDir, before anything is
\* loaded), an unknown step, an object that cannot be loaded, an instruction
\* not recorded as Started or an error of the library, it has saved no
\* object: the store is the one the run started from, and the instruction
\* it loaded is still where it was, as it was.
C36_FailureSavesNothing ==
    FailedRun =>
        /\ store = run.before
        /\ run.saved = None
        /\ run.saved_key = <<>>
        /\ ~run.cfg.db_dir =>
               /\ run.err = "EmptyDatabaseDir"
               /\ run.loaded = None
               /\ run.called = "none"
        /\ run.err \in {"EmptyDatabaseDir", "InvalidInstructionError", "FileReadError",
                         "LibraryError", "panic"}
        /\ (run.op # "validate_account" /\ run.loaded # None) =>
               /\ RequestedFile \in DOMAIN store
               /\ store[RequestedFile] = run.loaded

\* the library refused a transfer instruction recorded as Started: it is
\* still recorded as Started, and neither as Verified nor as Rejected
C36_Witness ==
    /\ FailedRun
    /\ run.op = "validate_transaction"
    /\ run.err = "LibraryError"
    /\ run.called = "CtxSenderValidator.verify"
    /\ run.loaded.state = TxState("Initialization", "Started")
    /\ store[RequestedFile].state = TxState("Initialization", "Started")
    /\ \A sub \in {"Verified", "Rejected"} :
           Key(run.cfg.sender,
               confidential_transaction_file(run.cfg.tx_id,
                                             TxState("Initialization", sub)))
               \notin DOMAIN store

\* an account the library refuses is not written as validated
C36_WitnessAccount ==
    /\ FailedRun
    /\ run.op = "validate_account"
    /\ run.err = "LibraryError"
    /\ Key(run.cfg.user, VALIDATED_PUBLIC_ACCOUNT_FILE) \notin DOMAIN store

C36_WitnessNoDatabase ==
    /\ FailedRun
    /\ run.op = "validate_asset_issuance"
    /\ run.err = "EmptyDatabaseDir"

\* ================================================================== claims: validated accounts
Validated(st) == {k \in DOMAIN st : k[2] = "validated_public_account"}

PassedValidation(st, user) ==
    /\ Exists(st, user, VALIDATED_PUBLIC_ACCOUNT_FILE)
    /\ Exists(st, user, PUBLIC_ACCOUNT_FILE)
    /\ st[Key(user, VALIDATED_PUBLIC_ACCOUNT_FILE)] = st[Key(user, PUBLIC_ACCOUNT_FILE)]
    /\ AccountValidator_verify(st[Key(user, PUBLIC_ACCOUNT_FILE)]).ok

\* C37: the validated account of a user is written only by validate_account,
\* only after AccountValidator.verify accepted that user's public account,
\* and it is the account that was loaded; validate_asset_issuance and
\* validate_transaction take the issuer, the sender and the receiver from
\* the validated accounts only, so a transaction of a user whose account
\* never passed validation is never validated.
C37_ValidatedAccountsOnly ==
    /\ \A k \in Validated(store) : PassedValidation(store, k[1])
    /\ (run # IdleRun /\ run.op = "validate_account" /\ run.ok) =>
           /\ run.called = "AccountValidator.verify"
           /\ run.loaded = run.before[Key(run.cfg.user, PUBLIC_ACCOUNT_FILE)]
           /\ AccountValidator_verify(run.loaded).ok
           /\ run.saved_key = Key(run.cfg.user, VALIDATED_PUBLIC_ACCOUNT_FILE)
           /\ run.saved = run.loaded
           /\ store = save_object(run.before, run.cfg.user,
                                  VALIDATED_PUBLIC_ACCOUNT_FILE, run.loaded)
    /\ (run # IdleRun /\ ~(run.op = "validate_account" /\ run.ok)) =>
           /\ Validated(store) = Validated(run.before)
           /\ \A k \in Validated(store) : store[k] = run.before[k]
    /\ IssuanceRun /\ run.loaded # None =>
           Exists(run.before, run.cfg.issuer, VALIDATED_PUBLIC_ACCOUNT_FILE)
    /\ IssuanceRun /\ run.ok => PassedValidation(run.before, run.cfg.issuer)
    /\ TransactionRun /\ run.loaded # None =>
           /\ Exists(run.before, run.cfg.sender, VALIDATED_PUBLIC_ACCOUNT_FILE)
           /\ Exists(run.before, run.cfg.receiver, VALIDATED_PUBLIC_ACCOUNT_FILE)
    /\ TransactionRun /\ run.ok =>
           /\ PassedValidation(run.before, run.cfg.sender)
           /\ PassedValidation(run.before, run.cfg.receiver)

\* a transfer is validated once both of its users passed validation
C37_Witness ==
    /\ TransactionRun
    /\ run.ok
    /\ run.cfg.sender # run.cfg.receiver
    /\ PassedValidation(run.before, run.cfg.sender)
    /\ PassedValidation(run.before, run.cfg.receiver)

\* the receiver's account does not pass validation: the transfer that is
\* waiting for validation cannot be validated
C37_WitnessNeverValidated ==
    /\ TransactionRun
    /\ ~run.ok
    /\ run.err = "FileReadError"
    /\ RequestedFile \in DOMAIN store
    /\ PassedValidation(store, run.cfg.sender)
    /\ ~AccountValidator_verify(store[Key(run.cfg.receiver, PUBLIC_ACCOUNT_FILE)]).ok
    /\ ~Exists(store, run.cfg.receiver, VALIDATED_PUBLIC_ACCOUNT_FILE)

C37_WitnessAccountValidated ==
    /\ run # IdleRun
    /\ run.op = "validate_account"
    /\ run.ok
    /\ ~Exists(run.before, run.cfg.user, VALIDATED_PUBLIC_ACCOUNT_FILE)
    /\ PassedValidation(store, run.cfg.user)

\* ================================================================== claims: what a successful run saves
SuccessfulTxRun == (IssuanceRun \/ TransactionRun) /\ run.ok

\* the user whose directory holds the instruction of the run
Owner == IF run.op = "validate_asset_issuance" THEN run.cfg.issuer ELSE run.cfg.sender

NewFile ==
    IF run.op = "validate_asset_issuance"
    THEN asset_transaction_file(run.cfg.tx_id, run.saved.state)
    ELSE confidential_transaction_file(run.cfg.tx_id, run.saved.state)

Accounts(st) ==
    {k \in DOMAIN st : k[2] \in {"public_account", "validated_public_account"}}

\* C38: a successful validate_asset_issuance or validate_transaction saves
\* exactly one object: the instruction it loaded, its data untouched and its
\* state replaced by the state the library returned, under the name derived
\* from that new state. It writes no account, and the instruction stays in
\* place under the name it was loaded from.
C38_OneObjectSaved ==
    SuccessfulTxRun =>
        /\ run.saved = [run.loaded EXCEPT !.state = run.saved.state]
        /\ run.saved_key = Key(Owner, NewFile)
        /\ store = save_object(run.before, Owner, NewFile, run.saved)
        /\ DOMAIN store = DOMAIN run.before \cup {run.saved_key}
        /\ run.saved_key # RequestedFile
        /\ RequestedFile \in DOMAIN store
        /\ store[RequestedFile] = run.loaded
        /\ store[RequestedFile] = run.before[RequestedFile]
        /\ Accounts(store) = Accounts(run.before)
        /\ \A k \in Accounts(store) : store[k] = run.before[k]

\* a transfer is recorded as justified: the instruction recorded as Started
\* is still there, next to the new one, and the accounts are as they were
C38_Witness ==
    /\ TransactionRun
    /\ run.ok
    /\ run.loaded.state = TxState("FinalizationJustification", "Started")
    /\ run.saved.state = TxState("FinalizationJustification", "Verified")
    /\ run.saved_key \notin DOMAIN run.before
    /\ store[RequestedFile].state = TxState("FinalizationJustification", "Started")
    /\ store[Key(run.cfg.sender, VALIDATED_PUBLIC_ACCOUNT_FILE)].enc_balance = ZeroCipher

C38_WitnessIssuance ==
    /\ IssuanceRun
    /\ run.ok
    /\ run.saved_key \notin DOMAIN run.before
    /\ store[RequestedFile].state.sub = "Started"
    /\ store[run.saved_key].state.sub = "Verified"

\* the run is repeated: the object it saved before is written again
C38_WitnessSavedAgain ==
    /\ SuccessfulTxRun
    /\ run.saved_key \in DOMAIN run.before
    /\ store = run.before

\* ================================================================== claims: the random mode
RandCddRun == cdd_run # None /\ cdd_run.cfg.rand
RandClaimRun == claim_run # None /\ claim_run.cfg.rand

\* the first three draws of a generator seeded with [42; 32]
FirstDraw == fill_bytes(StdRng_from_seed(SCP_SEED))
SecondDraw == fill_bytes(FirstDraw.rng)
ThirdDraw == fill_bytes(SecondDraw.rng)

SeededCddClaim == RawCddClaimData(FirstDraw.value, SecondDraw.value)
SeededCddId ==
    compute_cdd_id(CddClaimData_new(FirstDraw.value, SecondDraw.value))

\* C39: with rand, a run of create-cdd-id or create-claim-proof draws the
\* investor did, then the investor unique id (then the scope did) from a
\* generator seeded with [42; 32], and uses that one unique id in the cdd
\* claim and in the scope claim; so whatever else is on the command line,
\* both commands arrive at the same investor did, unique id and cdd id on
\* every invocation.
C39_RandomModeIsDeterministic ==
    /\ RandCddRun =>
           /\ cdd_run.res.ok
           /\ cdd_run.res.raw_cdd_claim = SeededCddClaim
           /\ cdd_run.res.packaged_cdd_id.cdd_id = SeededCddId
    /\ RandClaimRun =>
           /\ claim_run.res.ok
           /\ claim_run.res.raw_cdd_claim = SeededCddClaim
           /\ claim_run.res.raw_scope_claim
                  = RawScopeClaimData(ThirdDraw.value, SecondDraw.value)
           /\ claim_run.res.raw_scope_claim.investor_unique_id
                  = claim_run.res.raw_cdd_claim.investor_unique_id
           /\ claim_run.res.packaged_proof.investor_did = FirstDraw.value
           /\ claim_run.res.packaged_proof.scope_did = ThirdDraw.value
           /\ claim_run.res.packaged_proof.cdd_id = SeededCddId
    /\ (RandCddRun /\ RandClaimRun) =>
           /\ cdd_run.res.raw_cdd_claim = claim_run.res.raw_cdd_claim
           /\ cdd_run.res.packaged_cdd_id.cdd_id = claim_run.res.packaged_proof.cdd_id

\* both commands were run with rand and with different options; the three
\* draws differ, so their order shows in the claims
C39_Witness ==
    /\ RandCddRun
    /\ RandClaimRun
    /\ cdd_run.cfg.cdd_claim # claim_run.cfg.cdd_claim
    /\ Cardinality({FirstDraw.value, SecondDraw.value, ThirdDraw.value}) = 3
    /\ cdd_run.res.raw_cdd_claim.investor_did = FirstDraw.value
    /\ claim_run.res.raw_scope_claim.investor_unique_id = SecondDraw.value
    /\ claim_verdict # None
    /\ claim_verdict.ok

\* without rand the claims are the ones read from the files
C39_WitnessFromFiles ==
    /\ cdd_run # None
    /\ ~cdd_run.cfg.rand
    /\ cdd_run.res.ok
    /\ cdd_run.res.raw_cdd_claim # SeededCddClaim

====
